---- MODULE Spec2Model ----
(***************************************************************************)
(* A model of the course pipeline of udemy-course-notifier: the similarity *)
(* engine (similarity/similarity.go), the quality scorer, the link         *)
(* resolution and the page scrape (scraper/scraper.go), the input checks   *)
(* of package security, and the scan cycle (main.go).                      *)
(*                                                                         *)
(* Representation.                                                         *)
(*  - A text (title, description) is the sequence of its whitespace-       *)
(*    separated words; the empty string is << >>.  Two texts are the same  *)
(*    Go string exactly when they are the same sequence.                   *)
(*  - A float64 similarity is the exact rational [n |-> , d |-> ] (n/d).   *)
(*    float64 rounds a few sums that equal a threshold exactly to just     *)
(*    below it (0.75 * 0.6 + 0.2 + 0.2 against 0.85); none of them arises  *)
(*    from the texts and the thresholds enumerated here.  The ratings      *)
(*    enumerated are those whose float64 difference is exact.              *)
(*  - A rating is held in tenths (45 is 4.5), a quality score in tenths of *)
(*    a point (1000 is 100.0), a threshold in hundredths (85 is 0.85).     *)
(*  - A URL is the record of its scheme, host, path and query pairs; an    *)
(*    anchor text is the sequence of its runs of bytes of one class.  What *)
(*    a fetch brings back is an input of the operation that makes it.      *)
(***************************************************************************)
EXTENDS Integers, Sequences, FiniteSets, TLC

(***************************************************************************)
(* Bounds of the model.                                                    *)
(***************************************************************************)
\* longest enumerated text, in words
MaxWords == 2
\* longest batch handed to DeduplicateCourses
MaxBatch == 3
\* longest enumerated anchor text, in runs of bytes of one kind
MaxRuns == 3
\* most anchors on an enumerated coupon or claim page
MaxLinks == 2
\* most anchors on an enumerated source page
MaxAnchors == 2
\* most configured source pages
MaxSources == 2
\* most characters in an enumerated channel ID
MaxChars == 3
\* most characters in an enumerated price marker text
MaxPriceChars == 3
\* most scan cycles of a monitoring run
MaxCycles == 2

(***************************************************************************)
(* Words.  The vocabulary the enumerated texts are built from, and what    *)
(* the string functions of the code do to each of its words.               *)
(***************************************************************************)
Vocab == {"Python", "python", "Complete", "Java", "Go", "2024", "Node.js"}

\* strings.ToLower on one word
ToLower(w) ==
  CASE w = "Python"        -> "python"
    [] w = "Complete"      -> "complete"
    [] w = "Comprehensive" -> "comprehensive"
    [] w = "Masterclass"   -> "masterclass"
    [] w = "Bootcamp"      -> "bootcamp"
    [] w = "Advanced"      -> "advanced"
    [] w = "Professional"  -> "professional"
    [] w = "Certification" -> "certification"
    [] w = "Diploma"       -> "diploma"
    [] w = "Course"        -> "course"
    [] w = "Guide"         -> "guide"
    [] w = "Java"          -> "java"
    [] w = "Go"            -> "go"
    [] w = "Node.js"       -> "node.js"
    [] w = "Quick"         -> "quick"
    [] w = "Crash"         -> "crash"
    [] w = "Intro"         -> "intro"
    [] w = "Summary"       -> "summary"
    [] w = "Overview"      -> "overview"
    [] w = "Brief"         -> "brief"
    [] w = "Basics"        -> "basics"
    [] w = "Only"          -> "only"
    [] w = "Programming"   -> "programming"
    [] w = "Design"        -> "design"
    [] OTHER               -> w

\* the runs of letters and digits of a lower-cased word, in order: what is
\* left between the word boundaries (\b) of the regular expressions and after
\* `[^\p{L}\p{N}\s]` is replaced by a space
AlnumRuns(lw) ==
  CASE lw = "node.js" -> <<"node", "js">>
    [] lw = "c++"     -> <<"c">>
    [] OTHER          -> <<lw>>

commonPrefixes ==
  <<"complete", "comprehensive", "ultimate", "full", "total", "entire",
    "master", "mastering", "learn", "learning", "course", "tutorial",
    "guide", "introduction", "intro", "advanced", "beginner", "basic",
    "professional", "pro", "expert", "bootcamp", "training">>

Range(s) == {s[k] : k \in DOMAIN s}

\* the words matched by `\b20\d{2}\b` among the words of the model
yearRegex(lw) == lw \in {"2020", "2021", "2022", "2023", "2024", "2025", "2026", "2027"}

\* all texts of at most n words over the word set W
TextsUpTo(W, n) == UNION {[1..k -> W] : k \in 0..n}

RECURSIVE SumLen(_)
SumLen(text) == IF text = << >> THEN 0 ELSE Len(Head(text)) + SumLen(Tail(text))

\* len(text) in bytes: the words and one space between neighbours
TextLen(text) == IF text = << >> THEN 0 ELSE SumLen(text) + Len(text) - 1

(***************************************************************************)
(* similarity.go: text similarity                                          *)
(***************************************************************************)
RECURSIVE Concat(_)
Concat(ss) == IF ss = << >> THEN << >> ELSE Head(ss) \o Concat(Tail(ss))

\* normalizeText: lower-case, drop the filler words (as prefix, as suffix and
\* standalone), drop the years, replace the special characters by spaces,
\* collapse the whitespace and trim.  The result is again a sequence of words.
normalizeText(text) ==
  LET runs == Concat([k \in DOMAIN text |-> AlnumRuns(ToLower(text[k]))])
  IN  SelectSeq(runs, LAMBDA r : r \notin Range(commonPrefixes) /\ ~yearRegex(r))

\* getWordSet: the words of at least 3 bytes
getWordSet(text) == {text[k] : k \in {m \in DOMAIN text : Len(text[m]) >= 3}}

One == [n |-> 1, d |-> 1]

Zero == [n |-> 0, d |-> 1]

\* float64(intersection) / float64(union), 0.0 when the union is empty
Ratio(intersection, union) ==
  IF union = 0 THEN Zero ELSE [n |-> intersection, d |-> union]

\* the Jaccard similarity of two word sets
Jaccard(words1, words2) ==
  Ratio(Cardinality(words1 \cap words2),
        Cardinality(words1) + Cardinality(words2) - Cardinality(words1 \cap words2))

\* calculateTextSimilarity once both texts are normalized
NormalizedSimilarity(norm1, norm2) ==
  IF norm1 = norm2 THEN One ELSE Jaccard(getWordSet(norm1), getWordSet(norm2))

calculateTextSimilarity_NoExactMatch(text1, text2) ==
  IF text1 = << >> \/ text2 = << >> THEN Zero
  ELSE NormalizedSimilarity(normalizeText(text1), normalizeText(text2))

calculateTextSimilarity_NoEmptyCheck(text1, text2) ==
  IF text1 = text2 THEN One
  ELSE NormalizedSimilarity(normalizeText(text1), normalizeText(text2))

\* calculateTextSimilarity: Jaccard similarity of the normalized word sets
calculateTextSimilarity(text1, text2) ==
  IF text1 = text2 THEN One
  ELSE IF text1 = << >> \/ text2 = << >> THEN Zero
  ELSE NormalizedSimilarity(normalizeText(text1), normalizeText(text2))

(***************************************************************************)
(* similarity.go: the engine                                               *)
(***************************************************************************)
\* the default threshold of New, in hundredths
DefaultThreshold == 85

\* New: a threshold outside (0, 1] is replaced by the default
New(threshold) ==
  IF threshold <= 0 \/ threshold > 100 THEN DefaultThreshold ELSE threshold

min(a, b) == IF a < b THEN a ELSE b

max(a, b) == IF a > b THEN a ELSE b

Abs(x) == IF x < 0 THEN 0 - x ELSE x

\* categorySim, in hundredths
CategorySim(course1, course2) ==
  IF ToLower(course1.Category) = ToLower(course2.Category) THEN 20 ELSE 0

\* the bonus for ratings within 0.5 points, in hundredths
RatingBonus(course1, course2) ==
  IF Abs(course1.Rating - course2.Rating) <= 5 THEN 5 ELSE 0

\* the bonus for student counts within 20%, in hundredths
StudentBonus(course1, course2) ==
  IF /\ course1.StudentCount > 0
     /\ course2.StudentCount > 0
     /\ 10 * min(course1.StudentCount, course2.StudentCount)
          >= 8 * max(course1.StudentCount, course2.StudentCount)
  THEN 5 ELSE 0

WeightedSum_TitleHalf(t, ds, course1, course2) ==
  [n |-> 50 * t.n * ds.d + 20 * ds.n * t.d
         + (CategorySim(course1, course2) + RatingBonus(course1, course2)
            + StudentBonus(course1, course2)) * t.d * ds.d,
   d |-> 100 * t.d * ds.d]

\* 0.6 * t + 0.2 * ds + (the category term and the bonuses), as one fraction
WeightedSum(t, ds, course1, course2) ==
  [n |-> 60 * t.n * ds.d + 20 * ds.n * t.d
         + (CategorySim(course1, course2) + RatingBonus(course1, course2)
            + StudentBonus(course1, course2)) * t.d * ds.d,
   d |-> 100 * t.d * ds.d]

\* totalSimilarity of CalculateSimilarity before math.Min
TotalSimilarity(course1, course2) ==
  WeightedSum(calculateTextSimilarity(course1.Title, course2.Title),
              calculateTextSimilarity(course1.Description, course2.Description),
              course1, course2)

\* math.Min(total, 1.0)
MinOne(total) == IF total.n > total.d THEN [n |-> total.d, d |-> total.d] ELSE total

CalculateSimilarity_NoClamp(course1, course2) == TotalSimilarity(course1, course2)

\* CalculateSimilarity: the weighted sum, clamped to 1.0
CalculateSimilarity(course1, course2) == MinOne(TotalSimilarity(course1, course2))

\* similarity >= threshold, the threshold in hundredths
AtLeast(similarity, threshold) == similarity.n * 100 >= threshold * similarity.d

\* IsSimilar: CalculateSimilarity(course1, course2) >= similarityThreshold
IsSimilar(threshold, course1, course2) ==
  AtLeast(CalculateSimilarity(course1, course2), threshold)

FindBestCourse_FirstOnTie(course1, course2) ==
  IF course1.QualityScore # course2.QualityScore
  THEN IF course1.QualityScore > course2.QualityScore THEN course1 ELSE course2
  ELSE course1

\* FindBestCourse: quality score, then rating, then student count, then the
\* more recent PostedAt; course2 when all four are tied
FindBestCourse(course1, course2) ==
  IF course1.QualityScore # course2.QualityScore
  THEN IF course1.QualityScore > course2.QualityScore THEN course1 ELSE course2
  ELSE IF course1.Rating # course2.Rating
  THEN IF course1.Rating > course2.Rating THEN course1 ELSE course2
  ELSE IF course1.StudentCount # course2.StudentCount
  THEN IF course1.StudentCount > course2.StudentCount THEN course1 ELSE course2
  ELSE IF course1.PostedAt > course2.PostedAt THEN course1 ELSE course2

(***************************************************************************)
(* scraper.go: the quality scorer                                          *)
(***************************************************************************)
positiveWords ==
  <<"complete", "comprehensive", "masterclass", "bootcamp", "advanced",
    "professional", "certification", "diploma", "course", "guide",
    "tutorial", "training", "learn", "master", "expert">>

negativeWords ==
  <<"quick", "crash", "basics only", "intro", "beginner only",
    "summary", "overview", "brief">>

\* the keyword as the words it spans
KeywordWords(kw) ==
  CASE kw = "basics only"   -> <<"basics", "only">>
    [] kw = "beginner only" -> <<"beginner", "only">>
    [] OTHER                -> <<kw>>

\* k is a substring of the word lw (for the words of the model)
WordContains(lw, k) ==
  \/ lw = k
  \/ lw = "masterclass" /\ k = "master"
  \/ lw = "mastering" /\ k = "master"
  \/ lw = "learning" /\ k = "learn"
  \/ lw = "introduction" /\ k = "intro"

\* strings.Contains(text, kw) for a keyword of one or two words
Contains(text, kw) ==
  LET ks == KeywordWords(kw)
  IN  IF Len(ks) = 1
      THEN \E m \in DOMAIN text : WordContains(text[m], ks[1])
      ELSE \E m \in DOMAIN text :
             /\ m + 1 \in DOMAIN text
             /\ text[m] = ks[1]
             /\ text[m + 1] = ks[2]

\* strconv.Itoa on the years of the model
Itoa(year) ==
  CASE year = 2022 -> "2022"
    [] year = 2023 -> "2023"
    [] year = 2024 -> "2024"
    [] year = 2025 -> "2025"
    [] year = 2026 -> "2026"
    [] year = 2027 -> "2027"

\* the first year of currentYear, currentYear-1, currentYear-2 found in the
\* title adds 3 - (currentYear - year); 0 when none is found
RECURSIVE YearBonus(_, _, _)
YearBonus(title, currentYear, year) ==
  IF year < currentYear - 2 THEN 0
  ELSE IF Contains(title, Itoa(year)) THEN 3 - (currentYear - year)
  ELSE YearBonus(title, currentYear, year - 1)

\* the student count bonus
StudentTerm(studentCount) ==
  CASE studentCount >= 1000 -> 30
    [] studentCount >= 500 /\ studentCount < 1000 -> 25
    [] studentCount >= 100 /\ studentCount < 500 -> 20
    [] studentCount >= 50 /\ studentCount < 100 -> 15
    [] studentCount >= 10 /\ studentCount < 50 -> 10
    [] studentCount > 0 /\ studentCount < 10 -> 5
    [] OTHER -> 0

\* the places of the text where the keyword occurs
Occurrences(text, kw) ==
  IF Len(KeywordWords(kw)) = 1
  THEN {m \in DOMAIN text : WordContains(text[m], KeywordWords(kw)[1])}
  ELSE {m \in DOMAIN text : /\ m + 1 \in DOMAIN text
                            /\ text[m] = KeywordWords(kw)[1]
                            /\ text[m + 1] = KeywordWords(kw)[2]}

RECURSIVE OccurrenceSum(_, _, _)
\* the number of occurrences in the text of the keywords from the k-th on
OccurrenceSum(text, keywords, k) ==
  IF k > Len(keywords) THEN 0
  ELSE Cardinality(Occurrences(text, keywords[k])) + OccurrenceSum(text, keywords, k + 1)

TitleTerm_PerOccurrence(titleLower) ==
  2 * OccurrenceSum(titleLower, positiveWords, 1)
  - 3 * OccurrenceSum(titleLower, negativeWords, 1)

\* +2 for each positive word and -3 for each negative word that
\* strings.Contains finds in the lower-cased title
TitleTerm(titleLower) ==
  2 * Cardinality({k \in DOMAIN positiveWords : Contains(titleLower, positiveWords[k])})
  - 3 * Cardinality({k \in DOMAIN negativeWords : Contains(titleLower, negativeWords[k])})

\* +5 for a description of more than 100 bytes, +3 more above 200
DescriptionTerm(length) ==
  (IF length > 100 THEN 5 ELSE 0) + (IF length > 200 THEN 3 ELSE 0)

\* the sum of calculateQualityScore before the two clamps, in tenths
RawQualityScore(rating, studentCount, title, description, currentYear) ==
  (IF rating > 0 THEN rating * 8 ELSE 0)
  + 10 * (StudentTerm(studentCount)
          + TitleTerm([k \in DOMAIN title |-> ToLower(title[k])])
          + DescriptionTerm(TextLen(description))
          + YearBonus(title, currentYear, currentYear))

\* if score > 100 { score = 100 }
Cap(score) == IF score > 1000 THEN 1000 ELSE score

\* if score < 0 { score = 0 }
Floor(score) == IF score < 0 THEN 0 ELSE score

calculateQualityScore_NoCap(rating, studentCount, title, description, currentYear) ==
  Floor(RawQualityScore(rating, studentCount, title, description, currentYear))

calculateQualityScore_NoFloor(rating, studentCount, title, description, currentYear) ==
  Cap(RawQualityScore(rating, studentCount, title, description, currentYear))

\* calculateQualityScore: the sum capped at 100, then floored at 0; the year
\* read from the clock is the last parameter
calculateQualityScore(rating, studentCount, title, description, currentYear) ==
  Floor(Cap(RawQualityScore(rating, studentCount, title, description, currentYear)))

(***************************************************************************)
(* URLs.  A URL is the record of its scheme, host, path and query, the     *)
(* query being the sequence of its <<key, value>> pairs in the order they  *)
(* are written; a relative href has an empty scheme and an empty host and  *)
(* its path starts with "/".  The substrings the scraper searches an href  *)
(* for are looked up in tables, one per component.                         *)
(***************************************************************************)
URL(scheme, host, path, query) ==
  [scheme |-> scheme, host |-> host, path |-> path, query |-> query]

\* the empty string
NoURL == URL("", "", "", << >>)

\* the searched substrings a host contains
HostMarks(host) ==
  CASE host = "www.udemy.com" -> {"udemy.com"}
    [] host = "udemy.com" -> {"udemy.com"}
    [] host = "click.linksynergy.com" -> {"click.", "linksynergy.com"}
    [] OTHER -> {}

\* the searched substrings a path contains
PathMarks(path) ==
  CASE path = "/course/python/" -> {"/course/"}
    [] path = "/course/java/" -> {"/course/"}
    [] path = "/user/bob/" -> {"/user/"}
    [] path = "/coupon/abc" -> {"/coupon/"}
    [] path = "/claim/abc" -> {"/claim/"}
    [] path = "/udemy.com/course/python/" -> {"udemy.com", "/course/"}
    [] path = "/go/udemy.com-python" -> {"udemy.com"}
    [] OTHER -> {}

\* the searched substrings the written form key=value of a query pair contains
PairMarks(pair) ==
  (IF pair[1] = "murl" THEN {"murl="} ELSE {})
    \cup (IF pair[1] = "couponCode" THEN {"couponCode="} ELSE {})
    \cup (IF pair[2] = "https%3A%2F%2Fwww.udemy.com%2Fcourse%2Fpython%2F"
          THEN {"udemy.com"} ELSE {})

QueryMarks(query) == UNION {PairMarks(query[n]) : n \in DOMAIN query}

\* strings.Contains(href, s) for the searched substrings
HrefContains(href, s) ==
  s \in HostMarks(href.host) \cup PathMarks(href.path) \cup QueryMarks(href.query)

\* strings.HasPrefix(href, "/")
HasPrefixSlash(href) == href.scheme = "" /\ href.host = "" /\ href.path # ""

\* base.Scheme + "://" + base.Host + href, for an href that starts with "/"
Rooted(href, base) ==
  IF HasPrefixSlash(href)
  THEN URL(base.scheme, base.host, href.path, href.query)
  ELSE href

RECURSIVE PairsLen(_)
PairsLen(query) ==
  IF query = << >> THEN 0
  ELSE 1 + Len(Head(query)[1]) + 1 + Len(Head(query)[2]) + PairsLen(Tail(query))

\* len(rawURL): "?" or "&" before each pair, "://" after a scheme
URLLen(u) ==
  (IF u.scheme = "" THEN 0 ELSE Len(u.scheme) + 3)
    + Len(u.host) + Len(u.path) + PairsLen(u.query)

\* url.QueryUnescape, on the values the hrefs carry
QueryUnescape(v) ==
  CASE v = "NEW%20YEAR" -> "NEW YEAR"
    [] v = "NEW+YEAR" -> "NEW YEAR"
    [] OTHER -> v

\* url.QueryEscape
QueryEscape(v) ==
  CASE v = "NEW YEAR" -> "NEW+YEAR"
    [] OTHER -> v

\* url.Values.Get: the decoded first value of the key, "" without one
RECURSIVE QueryGet(_, _)
QueryGet(query, key) ==
  IF query = << >> THEN ""
  ELSE IF Head(query)[1] = key THEN QueryUnescape(Head(query)[2])
  ELSE QueryGet(Tail(query), key)

(***************************************************************************)
(* package security.                                                       *)
(***************************************************************************)
MaxFilterStringLength == 1000

MaxCourseCount == 100

MaxURLLength == 2048

allowedDomains == {"udemy.com", "www.udemy.com", "courson.xyz"}

\* the domains d with host == d or strings.HasSuffix(host, "."+d)
DomainsOf(host) ==
  CASE host = "www.udemy.com" -> {"www.udemy.com", "udemy.com"}
    [] host = "click.linksynergy.com" -> {"click.linksynergy.com", "linksynergy.com"}
    [] OTHER -> {host}

\* ValidateURL: the error, "" for nil
ValidateURL(rawURL) ==
  IF URLLen(rawURL) > MaxURLLength THEN "URL too long"
  ELSE IF rawURL.scheme # "https" /\ rawURL.scheme # "http" THEN "invalid URL scheme"
  ELSE IF DomainsOf(rawURL.host) \cap allowedDomains = {} THEN "domain not allowed"
  ELSE ""

\* LimitCourses
LimitCourses(count) == IF count > MaxCourseCount THEN MaxCourseCount ELSE count

(***************************************************************************)
(* Strings whose bytes matter only by their class.  Such a string is the   *)
(* sequence of its runs, a run being n bytes of one kind: "visible",       *)
(* "space", "newline" (a line feed, carriage return or tab) or "nul".      *)
(***************************************************************************)
Run(kind, n) == [kind |-> kind, n |-> n]

\* len(s)
RECURSIVE StrLen(_)
StrLen(s) == IF s = << >> THEN 0 ELSE Head(s).n + StrLen(Tail(s))

\* s[:n]
RECURSIVE Truncate(_, _)
Truncate(s, n) ==
  IF s = << >> \/ n = 0 THEN << >>
  ELSE IF Head(s).n <= n
       THEN <<Head(s)>> \o Truncate(Tail(s), n - Head(s).n)
       ELSE <<Run(Head(s).kind, n)>>

\* unicode.IsSpace
IsSpace(kind) == kind \in {"space", "newline"}

RECURSIVE TrimLeft(_)
TrimLeft(s) ==
  IF s = << >> THEN s
  ELSE IF IsSpace(Head(s).kind) THEN TrimLeft(Tail(s)) ELSE s

RECURSIVE TrimRight(_)
TrimRight(s) ==
  IF s = << >> THEN s
  ELSE IF IsSpace(s[Len(s)].kind) THEN TrimRight(SubSeq(s, 1, Len(s) - 1)) ELSE s

\* strings.TrimSpace
TrimSpace(s) == TrimRight(TrimLeft(s))

\* strings.ReplaceAll(s, "\x00", "")
RemoveNul(s) == SelectSeq(s, LAMBDA r : r.kind # "nul")

\* strings.ReplaceAll of "\n", "\r" and "\t" by " "
SpacesForNewlines(s) ==
  [n \in DOMAIN s |-> IF s[n].kind = "newline" THEN Run("space", s[n].n) ELSE s[n]]

\* if len(input) > MaxFilterStringLength { input = input[:MaxFilterStringLength] }
Limited(input) ==
  IF StrLen(input) > MaxFilterStringLength
  THEN Truncate(input, MaxFilterStringLength)
  ELSE input

\* SanitizeString
SanitizeString(input) == TrimSpace(SpacesForNewlines(RemoveNul(Limited(input))))

\* extractCourses: the text the title is taken from, the anchor's own text
\* or, when that trims to nothing, its parent's
TitleText(text, parentText) ==
  IF TrimSpace(text) = << >> THEN TrimSpace(parentText) ELSE TrimSpace(text)

\* if len(title) > 200 { title = title[:200] }
CapTitle(title) == IF StrLen(title) > 200 THEN Truncate(title, 200) ELSE title

\* extractCourses: whether the anchor passes the title check, and the title
\* its listing carries
ExtractTitle(text, parentText) ==
  [emit  |-> ~(TitleText(text, parentText) = << >>
               \/ StrLen(TitleText(text, parentText)) < 10),
   title |-> CapTitle(SanitizeString(TitleText(text, parentText)))]

(***************************************************************************)
(* Link resolution.  What a fetch brings back is an input: an error, or    *)
(* the hrefs of the page's anchors in document order.                      *)
(***************************************************************************)
Fetched(links) == [err |-> "", links |-> links]

FetchFailed(err) == [err |-> err, links |-> << >>]

\* the events of a resolution: time.Sleep(s.rateLimit) and s.client.Do(req)
Sleep == [op |-> "sleep", url |-> NoURL]

Fetch(u) == [op |-> "fetch", url |-> u]

Resolved(u, err, log) == [url |-> u, err |-> err, log |-> log]

\* url.Values.Encode of the kept parameters: sorted by key, values escaped
KeepParam(query, key) ==
  IF QueryGet(query, key) # ""
  THEN << <<key, QueryEscape(QueryGet(query, key))>> >>
  ELSE << >>

CleanQuery(query) == KeepParam(query, "couponCode") \o KeepParam(query, "referralCode")

\* the tracking test of cleanUdemyURL
IsTracking(u) ==
  \/ "linksynergy.com" \in HostMarks(u.host)
  \/ "click." \in HostMarks(u.host)
  \/ HrefContains(u, "murl=")

\* if strings.HasPrefix(rawURL, "/") { rawURL = "https://www.udemy.com" + rawURL }
OnUdemy(rawURL) ==
  IF HasPrefixSlash(rawURL)
  THEN URL("https", "www.udemy.com", rawURL.path, rawURL.query)
  ELSE rawURL

CleanAbsolute_KeepQuery(rawURL) ==
  IF IsTracking(rawURL) THEN [url |-> rawURL, err |-> ""]
  ELSE IF ~("udemy.com" \in HostMarks(rawURL.host)) /\ ~HrefContains(rawURL, "udemy.com")
       THEN [url |-> NoURL, err |-> "not a Udemy URL"]
       ELSE [url |-> rawURL, err |-> ""]

\* cleanUdemyURL after its relative-URL step
CleanAbsolute(rawURL) ==
  IF IsTracking(rawURL) THEN [url |-> rawURL, err |-> ""]
  ELSE IF ~("udemy.com" \in HostMarks(rawURL.host)) /\ ~HrefContains(rawURL, "udemy.com")
       THEN [url |-> NoURL, err |-> "not a Udemy URL"]
       ELSE [url |-> URL(rawURL.scheme, rawURL.host, rawURL.path, CleanQuery(rawURL.query)),
             err |-> ""]

\* cleanUdemyURL
cleanUdemyURL(rawURL) == CleanAbsolute(OnUdemy(rawURL))

RECURSIVE FirstWith(_, _)
\* the first of the links that contains s, NoURL without one
FirstWith(links, s) ==
  IF links = << >> THEN NoURL
  ELSE IF HrefContains(Head(links), s) THEN Head(links)
  ELSE FirstWith(Tail(links), s)

RECURSIVE FirstWithout(_, _)
\* the first of the links that does not contain s, NoURL without one
FirstWithout(links, s) ==
  IF links = << >> THEN NoURL
  ELSE IF ~HrefContains(Head(links), s) THEN Head(links)
  ELSE FirstWithout(Tail(links), s)

\* doc.Find("a[href*='udemy.com']")
UdemyLinks(links) == SelectSeq(links, LAMBDA h : HrefContains(h, "udemy.com"))

\* followClaimLink: the links with udemy.com and /course/; each one found
\* overwrites udemyURL
ClaimCourseLinks(links) ==
  SelectSeq(links, LAMBDA h : HrefContains(h, "udemy.com") /\ HrefContains(h, "/course/"))

\* followClaimLink: the link taken from the claim page, NoURL without one
ClaimPick(links) ==
  IF ClaimCourseLinks(links) # << >>
  THEN ClaimCourseLinks(links)[Len(ClaimCourseLinks(links))]
  ELSE FirstWithout(UdemyLinks(links), "/user/")

\* followClaimLink, given what the fetch of the claim page brings back
followClaimLink(claimURL, claim) ==
  IF claim.err # ""
  THEN Resolved(NoURL, claim.err, <<Sleep, Fetch(claimURL)>>)
  ELSE IF ClaimPick(claim.links) = NoURL
       THEN Resolved(NoURL, "no Udemy course link found on claim page",
                     <<Sleep, Fetch(claimURL)>>)
       ELSE Resolved(ClaimPick(claim.links), "", <<Sleep, Fetch(claimURL)>>)

CouponPick_AnyLink(links) ==
  IF FirstWith(UdemyLinks(links), "/course/") # NoURL
  THEN FirstWith(UdemyLinks(links), "/course/")
  ELSE FirstWith(links, "udemy.com")

\* followCouponLink: the link taken from the coupon page itself: the first
\* course link, else the first Udemy link that is not a user profile
CouponPick(links) ==
  IF FirstWith(UdemyLinks(links), "/course/") # NoURL
  THEN FirstWith(UdemyLinks(links), "/course/")
  ELSE FirstWithout(UdemyLinks(links), "/user/")

\* the result of cleanUdemyURL with the events that led to it
Cleaned(rawURL, log) ==
  Resolved(cleanUdemyURL(rawURL).url, cleanUdemyURL(rawURL).err, log)

AfterClaim_FallBack(couponURL, r) ==
  IF r.err # ""
  THEN Resolved(couponURL, "", <<Sleep, Fetch(couponURL)>> \o r.log)
  ELSE Cleaned(r.url, <<Sleep, Fetch(couponURL)>> \o r.log)

\* followCouponLink after followClaimLink has returned r
AfterClaim(couponURL, r) ==
  IF r.err # ""
  THEN Resolved(NoURL, "failed to follow claim link", <<Sleep, Fetch(couponURL)>> \o r.log)
  ELSE Cleaned(r.url, <<Sleep, Fetch(couponURL)>> \o r.log)

\* followCouponLink, given what the fetches of the coupon page and of the
\* claim page bring back
followCouponLink(couponURL, coupon, claim) ==
  IF coupon.err # ""
  THEN Resolved(NoURL, coupon.err, <<Sleep, Fetch(couponURL)>>)
  ELSE IF CouponPick(coupon.links) # NoURL
       THEN Cleaned(CouponPick(coupon.links), <<Sleep, Fetch(couponURL)>>)
       ELSE IF FirstWith(coupon.links, "/claim/") = NoURL
            THEN Resolved(NoURL, "no Udemy link found on coupon page",
                          <<Sleep, Fetch(couponURL)>>)
            ELSE AfterClaim(couponURL,
                            followClaimLink(Rooted(FirstWith(coupon.links, "/claim/"),
                                                   couponURL), claim))

\* extractCourses: the URL of the anchor's listing, or the error that drops
\* the anchor
ResolveAnchor(href, sourceURL, coupon, claim) ==
  IF HrefContains(href, "/coupon/")
  THEN followCouponLink(Rooted(href, sourceURL), coupon, claim)
  ELSE IF ValidateURL(href) # ""
       THEN Resolved(NoURL, ValidateURL(href), << >>)
       ELSE Cleaned(href, << >>)

(***************************************************************************)
(* State.                                                                  *)
(***************************************************************************)
VARIABLES
  fn,                   \* the function a pure-function specification applied, or "none"
  args,                 \* its arguments
  ret,                  \* its result
  similarityThreshold,  \* SimilarityEngine.similarityThreshold, in hundredths
  courses,              \* DeduplicateCourses: the input slice
  processed,            \* the indices marked in the processed map
  i,                    \* the index of the outer loop
  j,                    \* the index of the inner loop
  bestCourse,           \* the current best of the cluster being built
  bestIdx,              \* the input index bestCourse was copied from
  deduplicated,         \* the output slice
  origin,               \* for each output position, the input index it was copied from
  pc,                   \* the position in DeduplicateCourses
  sourceURL,            \* ScrapeCoursesFromURL: the page being scraped
  anchors,              \* the anchors of that page the selector matches, in document order
  anchorIdx,            \* the anchor the Each callback is called on next
  count,                \* extractCourses: count
  scraped,              \* extractCourses: the courses slice
  outcome,              \* for each anchor handled, what became of it
  scrapeErr,            \* the error ScrapeCoursesFromURL returns, "" for nil
  events,               \* the delays and fetches of the scrape so far, in order
  pcScrape,             \* the position in ScrapeCoursesFromURL
  sourceURLs,           \* cfg.Scraping.SourceURLs
  srcIdx,               \* scanForCourses: the index of the source loop
  scanned,              \* for each source handled, what its scrape returned
  allNewCourses,        \* scanForCourses: allNewCourses
  db,                   \* the url column of the courses table
  postIdx,              \* the index of the loop over the deduplicated courses
  posted,               \* the courses posted to the channel, in order
  cycle,                \* the number of scanForCourses calls started
  tick,                 \* whether a tick waits in the ticker's channel
  pcScan                \* the position in scanForCourses

vars == <<fn, args, ret, similarityThreshold, courses, processed, i, j,
          bestCourse, bestIdx, deduplicated, origin, pc,
          sourceURL, anchors, anchorIdx, count, scraped, outcome, scrapeErr, events,
          pcScrape,
          sourceURLs, srcIdx, scanned, allNewCourses, db, postIdx, posted, cycle, tick,
          pcScan>>

dedupVars == <<similarityThreshold, courses, processed, i, j,
               bestCourse, bestIdx, deduplicated, origin, pc>>

pureVars == <<fn, args, ret>>

scrapeVars == <<sourceURL, anchors, anchorIdx, count, scraped, outcome, scrapeErr, events,
                pcScrape>>

tickerVars == <<cycle, tick>>

scanVars == <<sourceURLs, srcIdx, scanned, allNewCourses, db, postIdx, posted, cycle, tick,
              pcScan>>

NoValue == [none |-> TRUE]

\* the variables of DeduplicateCourses while a pure-function specification runs
DedupIdle ==
  /\ similarityThreshold = DefaultThreshold
  /\ courses = << >>
  /\ processed = {}
  /\ i = 0
  /\ j = 0
  /\ bestCourse = NoValue
  /\ bestIdx = 0
  /\ deduplicated = << >>
  /\ origin = << >>
  /\ pc = "idle"

\* the variables of the pure-function specifications while the engine runs
PureIdle ==
  /\ fn = "none"
  /\ args = << >>
  /\ ret = NoValue

\* the variables of ScrapeCoursesFromURL while another specification runs
ScrapeIdle ==
  /\ sourceURL = NoURL
  /\ anchors = << >>
  /\ anchorIdx = 0
  /\ count = 0
  /\ scraped = << >>
  /\ outcome = << >>
  /\ scrapeErr = ""
  /\ events = << >>
  /\ pcScrape = "idle"

\* the variables of scanForCourses while another specification runs
ScanIdle ==
  /\ sourceURLs = << >>
  /\ srcIdx = 0
  /\ scanned = << >>
  /\ allNewCourses = << >>
  /\ db = {}
  /\ postIdx = 0
  /\ posted = << >>
  /\ cycle = 0
  /\ tick = FALSE
  /\ pcScan = "idle"

(***************************************************************************)
(* database.Course, with the fields the engine and the scorer read.        *)
(***************************************************************************)
Course(id, title, description, category, rating, studentCount, qualityScore, postedAt) ==
  [ID |-> id, Title |-> title, Description |-> description, Category |-> category,
   Rating |-> rating, StudentCount |-> studentCount, QualityScore |-> qualityScore,
   PostedAt |-> postedAt]

\* the year time.Now().Year() returns during a scan
ScanYear == 2025

\* extractCourses: the Course literal of a scraped anchor; ID and PostedAt are
\* left at their zero values and the quality score is computed from the fields
ScrapedCourse(title, description, category, rating, studentCount) ==
  Course(0, title, description, category, rating, studentCount,
         calculateQualityScore(rating, studentCount, title, description, ScanYear), 0)

(***************************************************************************)
(* SpecText: calculateTextSimilarity applied to every pair of texts.       *)
(***************************************************************************)
Texts == TextsUpTo(Vocab, MaxWords)

InitText ==
  /\ fn = "none"
  /\ args \in {<<t1, t2>> : t1 \in Texts, t2 \in Texts}
  /\ ret = NoValue
  /\ DedupIdle
  /\ ScrapeIdle
  /\ ScanIdle

CallTextSimilarity ==
  /\ fn = "none"
  /\ fn' = "calculateTextSimilarity"
  /\ ret' = calculateTextSimilarity(args[1], args[2])
  /\ UNCHANGED <<args, dedupVars, scrapeVars, scanVars>>

NextText == CallTextSimilarity

SpecText == InitText /\ [][NextText]_vars

(***************************************************************************)
(* SpecSim: CalculateSimilarity and IsSimilar applied to pairs of courses. *)
(***************************************************************************)
SimTitles == TextsUpTo({"Python", "Java"}, MaxWords)

SimDescriptions == {<< >>, <<"Java">>}

SimCategories == {"Programming", "programming", "Design"}

SimRatings == {40, 50}

SimStudentCounts == {0, 1000, 1200}

SimCourses ==
  {ScrapedCourse(t, ds, c, r, n) :
     t \in SimTitles, ds \in SimDescriptions, c \in SimCategories,
     r \in SimRatings, n \in SimStudentCounts}

\* thresholds as passed to New: valid ones, and invalid ones New replaces
ThresholdArgs == {0 - 10, 0, 1, 50, 85, 100, 101}

InitSim ==
  /\ fn = "none"
  /\ args \in {<<c1, c2>> : c1 \in SimCourses, c2 \in SimCourses}
  /\ ret = NoValue
  /\ DedupIdle
  /\ ScrapeIdle
  /\ ScanIdle

CallCalculateSimilarity ==
  /\ fn = "none"
  /\ fn' = "CalculateSimilarity"
  /\ ret' = CalculateSimilarity(args[1], args[2])
  /\ UNCHANGED <<args, dedupVars, scrapeVars, scanVars>>

CallIsSimilar ==
  /\ fn = "none"
  /\ fn' = "IsSimilar"
  /\ ret' = [t \in ThresholdArgs |-> IsSimilar(New(t), args[1], args[2])]
  /\ UNCHANGED <<args, dedupVars, scrapeVars, scanVars>>

NextSim == CallCalculateSimilarity \/ CallIsSimilar

SpecSim == InitSim /\ [][NextSim]_vars

(***************************************************************************)
(* SpecBest: FindBestCourse applied to pairs of courses, in both orders.   *)
(***************************************************************************)
BestCourses ==
  {Course(id, <<"Python">>, << >>, "Programming", r, n, q, p) :
     id \in {1, 2}, r \in {40, 45}, n \in {100, 500}, q \in {500, 760},
     p \in {0, 1}}

InitBest ==
  /\ fn = "none"
  /\ args \in {<<c1, c2>> : c1 \in BestCourses, c2 \in BestCourses}
  /\ ret = NoValue
  /\ DedupIdle
  /\ ScrapeIdle
  /\ ScanIdle

CallFindBestCourse ==
  /\ fn = "none"
  /\ fn' = "FindBestCourse"
  /\ ret' = [fwd |-> FindBestCourse(args[1], args[2]),
             rev |-> FindBestCourse(args[2], args[1])]
  /\ UNCHANGED <<args, dedupVars, scrapeVars, scanVars>>

NextBest == CallFindBestCourse

SpecBest == InitBest /\ [][NextBest]_vars

(***************************************************************************)
(* SpecQuality: calculateQualityScore applied to bounded inputs.           *)
(***************************************************************************)
\* the largest rating extractRating accepts, in tenths
MaxRating == 50

QualityStudentCounts == {0, 5, 10, 50, 100, 500, 1000}

AllPositiveTitle ==
  <<"Complete", "Comprehensive", "Masterclass", "Bootcamp", "Advanced",
    "Professional", "Certification", "Diploma", "Course", "Guide", "2025">>

AllNegativeTitle ==
  <<"Quick", "Crash", "Intro", "Summary", "Overview", "Brief", "Basics", "Only">>

QualityTitles ==
  TextsUpTo({"Complete", "Masterclass", "Crash", "2024", "Python"}, MaxWords)
    \cup {AllPositiveTitle, AllNegativeTitle}

\* a description of k words
Words(k) == [m \in 1..k |-> "python"]

\* descriptions of 0, 6, 104 and 209 bytes
QualityDescriptions == {Words(0), Words(1), Words(15), Words(30)}

QualityYears == {2025, 2026}

InitQuality ==
  /\ fn = "none"
  /\ args \in {<<r, n, t, ds, y>> :
                 r \in 0..MaxRating, n \in QualityStudentCounts,
                 t \in QualityTitles, ds \in QualityDescriptions, y \in QualityYears}
  /\ ret = NoValue
  /\ DedupIdle
  /\ ScrapeIdle
  /\ ScanIdle

CallQualityScore ==
  /\ fn = "none"
  /\ fn' = "calculateQualityScore"
  /\ ret' = calculateQualityScore(args[1], args[2], args[3], args[4], args[5])
  /\ UNCHANGED <<args, dedupVars, scrapeVars, scanVars>>

NextQuality == CallQualityScore

SpecQuality == InitQuality /\ [][NextQuality]_vars

(***************************************************************************)
(* Spec: DeduplicateCourses, one step of its loops at a time.              *)
(***************************************************************************)
DedupTitles == {<<"Complete", "Python">>, <<"Java">>}

DedupDescriptions == {<< >>, <<"Java">>}

DedupCategories == {"Programming", "Design"}

DedupRatings == {40, 50}

\* the listings a scan can produce
ScrapedCourses ==
  {ScrapedCourse(t, ds, c, r, 0) :
     t \in DedupTitles, ds \in DedupDescriptions, c \in DedupCategories,
     r \in DedupRatings}

\* AddCourse: the stored row's ID; rows stored later are posted later
Stored(batch) == [k \in DOMAIN batch |-> [batch[k] EXCEPT !.ID = k, !.PostedAt = k]]

Init ==
  /\ PureIdle
  /\ ScrapeIdle
  /\ ScanIdle
  /\ similarityThreshold = New(DefaultThreshold)
  /\ \E n \in 0..MaxBatch, stored \in BOOLEAN :
       \E batch \in [1..n -> ScrapedCourses] :
         courses = IF stored THEN Stored(batch) ELSE batch
  /\ processed = {}
  /\ i = 0
  /\ j = 0
  /\ bestCourse = NoValue
  /\ bestIdx = 0
  /\ deduplicated = << >>
  /\ origin = << >>
  /\ pc = "start"

\* if len(courses) <= 1 { return courses }
ReturnInput ==
  /\ pc = "start"
  /\ Len(courses) <= 1
  /\ deduplicated' = courses
  /\ origin' = [k \in DOMAIN courses |-> k]
  /\ pc' = "done"
  /\ UNCHANGED <<pureVars, scrapeVars, scanVars, similarityThreshold, courses, processed, i, j,
                 bestCourse, bestIdx>>

\* entering the outer loop
EnterLoop ==
  /\ pc = "start"
  /\ Len(courses) > 1
  /\ i' = 1
  /\ pc' = "outer"
  /\ UNCHANGED <<pureVars, scrapeVars, scanVars, similarityThreshold, courses, processed, j,
                 bestCourse, bestIdx, deduplicated, origin>>

\* if processed[i] { continue }
OuterSkip ==
  /\ pc = "outer"
  /\ i <= Len(courses)
  /\ i \in processed
  /\ i' = i + 1
  /\ UNCHANGED <<pureVars, scrapeVars, scanVars, similarityThreshold, courses, processed, j,
                 bestCourse, bestIdx, deduplicated, origin, pc>>

\* bestCourse := course1; processed[i] = true
OuterPick ==
  /\ pc = "outer"
  /\ i <= Len(courses)
  /\ i \notin processed
  /\ bestCourse' = courses[i]
  /\ bestIdx' = i
  /\ processed' = processed \cup {i}
  /\ j' = i + 1
  /\ pc' = "inner"
  /\ UNCHANGED <<pureVars, scrapeVars, scanVars, similarityThreshold, courses, i, deduplicated, origin>>

\* if processed[j] { continue }
InnerSkip ==
  /\ pc = "inner"
  /\ j <= Len(courses)
  /\ j \in processed
  /\ j' = j + 1
  /\ UNCHANGED <<pureVars, scrapeVars, scanVars, similarityThreshold, courses, processed, i,
                 bestCourse, bestIdx, deduplicated, origin, pc>>

\* IsSimilar(&bestCourse, &course2) is false
InnerDifferent ==
  /\ pc = "inner"
  /\ j <= Len(courses)
  /\ j \notin processed
  /\ ~IsSimilar(similarityThreshold, bestCourse, courses[j])
  /\ j' = j + 1
  /\ UNCHANGED <<pureVars, scrapeVars, scanVars, similarityThreshold, courses, processed, i,
                 bestCourse, bestIdx, deduplicated, origin, pc>>

KeepBetter_Hybrid(best, course2) ==
  IF FindBestCourse(best, course2).ID = course2.ID
  THEN [course2 EXCEPT !.Rating = max(best.Rating, course2.Rating)]
  ELSE best

\* the listing DeduplicateCourses keeps when course2 is similar to bestCourse:
\* course2 when the winner's ID equals course2's ID
KeepBetter(best, course2) ==
  LET betterCourse == FindBestCourse(best, course2)
  IN  IF betterCourse.ID = course2.ID THEN course2 ELSE best

\* IsSimilar(&bestCourse, &course2) is true
InnerMerge ==
  /\ pc = "inner"
  /\ j <= Len(courses)
  /\ j \notin processed
  /\ IsSimilar(similarityThreshold, bestCourse, courses[j])
  /\ bestCourse' = KeepBetter(bestCourse, courses[j])
  /\ bestIdx' = IF FindBestCourse(bestCourse, courses[j]).ID = courses[j].ID
                THEN j ELSE bestIdx
  /\ processed' = processed \cup {j}
  /\ j' = j + 1
  /\ UNCHANGED <<pureVars, scrapeVars, scanVars, similarityThreshold, courses, i, deduplicated, origin, pc>>

Emit_Prepend ==
  /\ pc = "inner"
  /\ j > Len(courses)
  /\ deduplicated' = <<bestCourse>> \o deduplicated
  /\ origin' = <<bestIdx>> \o origin
  /\ i' = i + 1
  /\ pc' = "outer"
  /\ UNCHANGED <<pureVars, scrapeVars, scanVars, similarityThreshold, courses, processed, j,
                 bestCourse, bestIdx>>

\* deduplicated = append(deduplicated, bestCourse)
Emit ==
  /\ pc = "inner"
  /\ j > Len(courses)
  /\ deduplicated' = Append(deduplicated, bestCourse)
  /\ origin' = Append(origin, bestIdx)
  /\ i' = i + 1
  /\ pc' = "outer"
  /\ UNCHANGED <<pureVars, scrapeVars, scanVars, similarityThreshold, courses, processed, j,
                 bestCourse, bestIdx>>

\* return deduplicated
Return ==
  /\ pc = "outer"
  /\ i > Len(courses)
  /\ pc' = "done"
  /\ UNCHANGED <<pureVars, scrapeVars, scanVars, similarityThreshold, courses, processed, i, j,
                 bestCourse, bestIdx, deduplicated, origin>>

Next ==
  \/ ReturnInput
  \/ EnterLoop
  \/ OuterSkip
  \/ OuterPick
  \/ InnerSkip
  \/ InnerDifferent
  \/ InnerMerge
  \/ Emit
  \/ Return

Spec == Init /\ [][Next]_vars

(***************************************************************************)
(* SpecTitle: the title check of extractCourses applied to anchor texts.   *)
(***************************************************************************)
RunKinds == {"visible", "space", "newline"}

RunLengths == {1, 9, 10, 190, 991}

\* the texts goquery returns: the parser drops the NUL bytes of a page
AnchorTexts ==
  UNION {[1..n -> {Run(kind, n2) : kind \in RunKinds, n2 \in RunLengths}] : n \in 0..MaxRuns}

ParentTexts == {<< >>, <<Run("visible", 5)>>, <<Run("space", 1), Run("visible", 12)>>}

InitTitle ==
  /\ fn = "none"
  /\ args \in {<<text, parentText>> : text \in AnchorTexts, parentText \in ParentTexts}
  /\ ret = NoValue
  /\ DedupIdle
  /\ ScrapeIdle
  /\ ScanIdle

CallExtractTitle ==
  /\ fn = "none"
  /\ fn' = "ExtractTitle"
  /\ ret' = ExtractTitle(args[1], args[2])
  /\ UNCHANGED <<args, dedupVars, scrapeVars, scanVars>>

NextTitle == CallExtractTitle

SpecTitle == InitTitle /\ [][NextTitle]_vars

(***************************************************************************)
(* SpecResolve: the resolution of one anchor of a scanned page, for every  *)
(* href, source page, coupon page and claim page below.                    *)
(***************************************************************************)
\* a course page with a coupon code and a campaign parameter
CourseHref ==
  URL("https", "www.udemy.com", "/course/python/",
      << <<"utm_source", "blog">>, <<"couponCode", "FREE">> >>)

\* a course page with both kept parameters, written in the other order
JavaHref ==
  URL("http", "udemy.com", "/course/java/",
      << <<"referralCode", "R1">>, <<"couponCode", "NEW%20YEAR">>, <<"fbclid", "x">> >>)

\* an instructor profile
UserHref == URL("https", "www.udemy.com", "/user/bob/", << >>)

\* an affiliate link: the destination is the escaped murl parameter
TrackingHref ==
  URL("https", "click.linksynergy.com", "/deeplink",
      << <<"id", "7">>, <<"murl", "https%3A%2F%2Fwww.udemy.com%2Fcourse%2Fpython%2F">> >>)

\* a course page carrying a murl parameter
MurlHref ==
  URL("https", "www.udemy.com", "/course/python/",
      << <<"murl", "x">>, <<"utm_source", "blog">> >>)

\* a page of another site with udemy.com in its path
ForeignHref == URL("https", "evil.example", "/udemy.com/course/python/", << >>)

\* a page of an allowed site that is not the course platform
PartnerHref == URL("https", "courson.xyz", "/go/udemy.com-python", << >>)

\* the same path, written relative to the page it is on
RelativeHref == URL("", "", "/go/udemy.com-python", << >>)

CouponHref == URL("https", "courson.xyz", "/coupon/abc", << >>)

RelativeCouponHref == URL("", "", "/coupon/abc", << >>)

ClaimHref == URL("", "", "/claim/abc", << >>)

\* the hrefs of the anchors the selector of extractCourses matches
Hrefs ==
  {h \in {CourseHref, JavaHref, TrackingHref, MurlHref, ForeignHref, PartnerHref,
          RelativeHref, CouponHref, RelativeCouponHref} :
     HrefContains(h, "udemy.com") \/ HrefContains(h, "/coupon/")}

\* the hrefs found on coupon and claim pages
Links == {CourseHref, JavaHref, UserHref, TrackingHref, ForeignHref, ClaimHref}

\* the configured source pages: config.Validate accepts a source only
\* when ValidateURL does
Sources ==
  {u \in {URL("https", "courson.xyz", "/", << >>),
          URL("http", "www.udemy.com", "/free", << >>)} : ValidateURL(u) = ""}

FetchErrors == {"transport", "status", "parse"}

\* what a fetch can bring back
Fetches ==
  {FetchFailed(e) : e \in FetchErrors}
    \cup {Fetched(links) : links \in UNION {[1..n -> Links] : n \in 0..MaxLinks}}

\* a page that is never requested
NotFetched == FetchFailed("not fetched")

\* whether followCouponLink goes on to the claim page
FollowsClaim(coupon) ==
  /\ coupon.err = ""
  /\ CouponPick(coupon.links) = NoURL
  /\ FirstWith(coupon.links, "/claim/") # NoURL

InitResolve ==
  /\ fn = "none"
  /\ \E href \in Hrefs, source \in Sources :
       IF HrefContains(href, "/coupon/")
       THEN \E coupon \in Fetches :
              \E claim \in (IF FollowsClaim(coupon) THEN Fetches ELSE {NotFetched}) :
                args = <<href, source, coupon, claim>>
       ELSE args = <<href, source, NotFetched, NotFetched>>
  /\ ret = NoValue
  /\ DedupIdle
  /\ ScrapeIdle
  /\ ScanIdle

CallResolveAnchor ==
  /\ fn = "none"
  /\ fn' = "ResolveAnchor"
  /\ ret' = ResolveAnchor(args[1], args[2], args[3], args[4])
  /\ UNCHANGED <<args, dedupVars, scrapeVars, scanVars>>

NextResolve == CallResolveAnchor

SpecResolve == InitResolve /\ [][NextResolve]_vars

(***************************************************************************)
(* SpecScrape: ScrapeCoursesFromURL on one source page, one anchor of the  *)
(* page at a time.                                                         *)
(***************************************************************************)
\* an anchor the selector matches: its href, its text and its parent's text
Anchor(href, text, parentText) == [href |-> href, text |-> text, parentText |-> parentText]

\* extractCourses: the URL and Title of the Course literal
Listing(url, title) == [URL |-> url, Title |-> title]

\* what became of an anchor: "limit", "unresolved", "untitled" or "listed",
\* with the error of its resolution
Outcome(kind, err) == [kind |-> kind, err |-> err]

\* every href with a text that passes the title check, and one anchor with a
\* text that does not
ScrapeAnchors ==
  {Anchor(href, <<Run("visible", 12)>>, << >>) : href \in Hrefs}
    \cup {Anchor(CourseHref, <<Run("visible", 5)>>, << >>)}

\* the literal extractCourses passes to LimitCourses
RequestedLimit == 1000

\* pages of up to MaxAnchors anchors of every kind, and long pages of
\* anchors that all yield a listing
Pages ==
  UNION {[1..n -> ScrapeAnchors] : n \in 0..MaxAnchors}
    \cup {[n \in 1..size |-> Anchor(CourseHref, <<Run("visible", 12)>>, << >>)] :
            size \in {MaxCourseCount + 1, RequestedLimit + 1}}

\* what the fetch of a coupon page, and of a claim page, brings back
CouponPages ==
  {FetchFailed("status"), Fetched(<< >>), Fetched(<<JavaHref>>),
   Fetched(<<UserHref, ClaimHref>>)}

ClaimPages == {FetchFailed("transport"), Fetched(<<UserHref>>), Fetched(<<CourseHref>>)}

InitScrape ==
  /\ PureIdle
  /\ DedupIdle
  /\ ScanIdle
  /\ sourceURL \in Sources
  /\ anchors \in Pages
  /\ anchorIdx = 0
  /\ count = 0
  /\ scraped = << >>
  /\ outcome = << >>
  /\ scrapeErr = ""
  /\ events = << >>
  /\ pcScrape = "request"

\* ScrapeCoursesFromURL: after the delay the request fails, the status is not
\* 200 or the markup does not parse
FetchSourceFails ==
  /\ pcScrape = "request"
  /\ \E e \in FetchErrors : scrapeErr' = e
  /\ events' = events \o <<Sleep, Fetch(sourceURL)>>
  /\ pcScrape' = "returned"
  /\ UNCHANGED <<pureVars, dedupVars, scanVars, sourceURL, anchors, anchorIdx, count,
                 scraped, outcome>>

ParseSource_NoDelay ==
  /\ pcScrape = "request"
  /\ events' = events \o <<Fetch(sourceURL)>>
  /\ anchorIdx' = 1
  /\ pcScrape' = "each"
  /\ UNCHANGED <<pureVars, dedupVars, scanVars, sourceURL, anchors, count, scraped,
                 outcome, scrapeErr>>

\* ScrapeCoursesFromURL: after the delay the page is fetched and parsed;
\* extractCourses starts
ParseSource ==
  /\ pcScrape = "request"
  /\ events' = events \o <<Sleep, Fetch(sourceURL)>>
  /\ anchorIdx' = 1
  /\ pcScrape' = "each"
  /\ UNCHANGED <<pureVars, dedupVars, scanVars, sourceURL, anchors, count, scraped,
                 outcome, scrapeErr>>

\* the resolution of the current anchor, given what its fetches bring back
Resolution(coupon, claim) ==
  ResolveAnchor(anchors[anchorIdx].href, sourceURL, coupon, claim)

\* the title check of the current anchor
CurrentTitle == ExtractTitle(anchors[anchorIdx].text, anchors[anchorIdx].parentText)

\* if count >= security.LimitCourses(1000) { return }
SkipAtLimit ==
  /\ pcScrape = "each"
  /\ anchorIdx <= Len(anchors)
  /\ count >= LimitCourses(RequestedLimit)
  /\ outcome' = Append(outcome, Outcome("limit", ""))
  /\ anchorIdx' = anchorIdx + 1
  /\ UNCHANGED <<pureVars, dedupVars, scanVars, sourceURL, anchors, count, scraped,
                 scrapeErr, events, pcScrape>>

DropUnresolved_Abort ==
  /\ pcScrape = "each"
  /\ anchorIdx <= Len(anchors)
  /\ count < LimitCourses(RequestedLimit)
  /\ \E coupon \in CouponPages, claim \in ClaimPages :
       /\ Resolution(coupon, claim).err # ""
       /\ outcome' = Append(outcome, Outcome("unresolved", Resolution(coupon, claim).err))
       /\ scrapeErr' = Resolution(coupon, claim).err
       /\ events' = events \o Resolution(coupon, claim).log
  /\ pcScrape' = "returned"
  /\ UNCHANGED <<pureVars, dedupVars, scanVars, sourceURL, anchors, anchorIdx, count,
                 scraped>>

\* the callback returns because followCouponLink, ValidateURL or cleanUdemyURL
\* returned an error
DropUnresolved ==
  /\ pcScrape = "each"
  /\ anchorIdx <= Len(anchors)
  /\ count < LimitCourses(RequestedLimit)
  /\ \E coupon \in CouponPages, claim \in ClaimPages :
       /\ Resolution(coupon, claim).err # ""
       /\ outcome' = Append(outcome, Outcome("unresolved", Resolution(coupon, claim).err))
       /\ events' = events \o Resolution(coupon, claim).log
  /\ anchorIdx' = anchorIdx + 1
  /\ UNCHANGED <<pureVars, dedupVars, scanVars, sourceURL, anchors, count, scraped,
                 scrapeErr, pcScrape>>

\* the callback returns because the title is empty or shorter than 10 bytes
DropUntitled ==
  /\ pcScrape = "each"
  /\ anchorIdx <= Len(anchors)
  /\ count < LimitCourses(RequestedLimit)
  /\ \E coupon \in CouponPages, claim \in ClaimPages :
       /\ Resolution(coupon, claim).err = ""
       /\ events' = events \o Resolution(coupon, claim).log
  /\ ~CurrentTitle.emit
  /\ outcome' = Append(outcome, Outcome("untitled", ""))
  /\ anchorIdx' = anchorIdx + 1
  /\ UNCHANGED <<pureVars, dedupVars, scanVars, sourceURL, anchors, count, scraped,
                 scrapeErr, pcScrape>>

\* courses = append(courses, course); count++
AppendCourse ==
  /\ pcScrape = "each"
  /\ anchorIdx <= Len(anchors)
  /\ count < LimitCourses(RequestedLimit)
  /\ CurrentTitle.emit
  /\ \E coupon \in CouponPages, claim \in ClaimPages :
       /\ Resolution(coupon, claim).err = ""
       /\ scraped' = Append(scraped, Listing(Resolution(coupon, claim).url, CurrentTitle.title))
       /\ events' = events \o Resolution(coupon, claim).log
  /\ count' = count + 1
  /\ outcome' = Append(outcome, Outcome("listed", ""))
  /\ anchorIdx' = anchorIdx + 1
  /\ UNCHANGED <<pureVars, dedupVars, scanVars, sourceURL, anchors, scrapeErr, pcScrape>>

\* return courses, nil
ReturnCourses ==
  /\ pcScrape = "each"
  /\ anchorIdx > Len(anchors)
  /\ pcScrape' = "returned"
  /\ UNCHANGED <<pureVars, dedupVars, scanVars, sourceURL, anchors, anchorIdx, count,
                 scraped, outcome, scrapeErr, events>>

NextScrape ==
  \/ FetchSourceFails
  \/ ParseSource
  \/ SkipAtLimit
  \/ DropUnresolved
  \/ DropUntitled
  \/ AppendCourse
  \/ ReturnCourses

SpecScrape == InitScrape /\ [][NextScrape]_vars

(***************************************************************************)
(* SpecScan: one call of scanForCourses.  What ScrapeCoursesFromURL        *)
(* returns for a source is an input: an error, or the listings of the      *)
(* page; DeduplicateCourses runs as in Spec.                               *)
(***************************************************************************)
\* extractCourses: the Course literal with its URL
WithURL(course, url) ==
  [f \in DOMAIN course \cup {"URL"} |-> IF f = "URL" THEN url ELSE course[f]]

PythonListing ==
  WithURL(ScrapedCourse(<<"Complete", "Python">>, << >>, "Programming", 40, 0),
          cleanUdemyURL(CourseHref).url)

\* the same course found through an affiliate link, with a better rating
PythonTrackedListing ==
  WithURL(ScrapedCourse(<<"Complete", "Python">>, << >>, "Programming", 50, 0),
          TrackingHref)

JavaListing ==
  WithURL(ScrapedCourse(<<"Java">>, <<"Java">>, "Design", 40, 0),
          cleanUdemyURL(JavaHref).url)

\* the Java course once more, from an anchor with another text
JavaRetitledListing ==
  WithURL(ScrapedCourse(<<"Masterclass">>, << >>, "Design", 40, 0),
          cleanUdemyURL(JavaHref).url)

\* the listings a scrape can return
ScrapeResults ==
  {<< >>, <<PythonTrackedListing>>, <<JavaListing>>, <<PythonListing, JavaListing>>,
   <<JavaListing, JavaRetitledListing>>}

\* the rows a scan can find in the table
StoredURLs == SUBSET {PythonListing.URL, JavaListing.URL}

\* what scanForCourses learns of a source: the error of its scrape, the
\* listings it returned and the indices of those whose CourseExists failed
Scanned(url, err, result, unchecked) ==
  [url |-> url, err |-> err, courses |-> result, unchecked |-> unchecked]

RECURSIVE NewCoursesFrom(_, _, _, _)
\* the filter loop of scanForCourses from index n on: a listing is kept when
\* CourseExists returns false without an error
NewCoursesFrom(result, unchecked, stored, n) ==
  IF n > Len(result) THEN << >>
  ELSE (IF n \notin unchecked /\ result[n].URL \notin stored THEN <<result[n]>> ELSE << >>)
         \o NewCoursesFrom(result, unchecked, stored, n + 1)

InitScan ==
  /\ PureIdle
  /\ DedupIdle
  /\ ScrapeIdle
  /\ sourceURLs \in UNION {[1..n -> Sources] : n \in 1..MaxSources}
  /\ srcIdx = 1
  /\ scanned = << >>
  /\ allNewCourses = << >>
  /\ db \in StoredURLs
  /\ postIdx = 0
  /\ posted = << >>
  /\ cycle = 1
  /\ tick = FALSE
  /\ pcScan = "sources"

ScrapeFails_Abort ==
  /\ pcScan = "sources"
  /\ srcIdx <= Len(sourceURLs)
  /\ \E e \in FetchErrors :
       scanned' = Append(scanned, Scanned(sourceURLs[srcIdx], e, << >>, {}))
  /\ srcIdx' = Len(sourceURLs) + 1
  /\ UNCHANGED <<pureVars, dedupVars, scrapeVars, tickerVars, sourceURLs, allNewCourses, db,
                 postIdx, posted, pcScan>>

\* ScrapeCoursesFromURL returns an error: the source is logged and skipped
ScrapeFails ==
  /\ pcScan = "sources"
  /\ srcIdx <= Len(sourceURLs)
  /\ \E e \in FetchErrors :
       scanned' = Append(scanned, Scanned(sourceURLs[srcIdx], e, << >>, {}))
  /\ srcIdx' = srcIdx + 1
  /\ UNCHANGED <<pureVars, dedupVars, scrapeVars, tickerVars, sourceURLs, allNewCourses, db,
                 postIdx, posted, pcScan>>

ScrapeSucceeds_NoFilter ==
  /\ pcScan = "sources"
  /\ srcIdx <= Len(sourceURLs)
  /\ \E result \in ScrapeResults :
       \E unchecked \in SUBSET DOMAIN result :
         /\ scanned' = Append(scanned, Scanned(sourceURLs[srcIdx], "", result, unchecked))
         /\ allNewCourses' = allNewCourses \o result
  /\ srcIdx' = srcIdx + 1
  /\ UNCHANGED <<pureVars, dedupVars, scrapeVars, tickerVars, sourceURLs, db, postIdx,
                 posted, pcScan>>

\* ScrapeCoursesFromURL returns listings: those not yet stored are appended
\* to allNewCourses
ScrapeSucceeds ==
  /\ pcScan = "sources"
  /\ srcIdx <= Len(sourceURLs)
  /\ \E result \in ScrapeResults :
       \E unchecked \in SUBSET DOMAIN result :
         /\ scanned' = Append(scanned, Scanned(sourceURLs[srcIdx], "", result, unchecked))
         /\ allNewCourses' = allNewCourses \o NewCoursesFrom(result, unchecked, db, 1)
  /\ srcIdx' = srcIdx + 1
  /\ UNCHANGED <<pureVars, dedupVars, scrapeVars, tickerVars, sourceURLs, db, postIdx,
                 posted, pcScan>>

\* similarityEngine.DeduplicateCourses(allNewCourses) is called
CallDeduplicate ==
  /\ pcScan = "sources"
  /\ srcIdx > Len(sourceURLs)
  /\ courses' = allNewCourses
  /\ pc' = "start"
  /\ postIdx' = 1
  /\ pcScan' = "process"
  /\ UNCHANGED <<pureVars, scrapeVars, tickerVars, similarityThreshold, processed, i, j, bestCourse,
                 bestIdx, deduplicated, origin, sourceURLs, srcIdx, scanned, allNewCourses,
                 db, posted>>

\* db.AddCourse returns an error: the url is stored already, or the insert
\* fails for another reason
AddCourseFails ==
  /\ pcScan = "process"
  /\ pc = "done"
  /\ postIdx <= Len(deduplicated)
  /\ postIdx' = postIdx + 1
  /\ UNCHANGED <<pureVars, dedupVars, scrapeVars, tickerVars, sourceURLs, srcIdx, scanned,
                 allNewCourses, db, posted, pcScan>>

AddAndPostCourse_NoUnique ==
  /\ pcScan = "process"
  /\ pc = "done"
  /\ postIdx <= Len(deduplicated)
  /\ db' = db \cup {deduplicated[postIdx].URL}
  /\ \E sent \in BOOLEAN :
       posted' = IF sent
                 THEN Append(posted, [deduplicated[postIdx] EXCEPT !.ID = Cardinality(db) + 1])
                 ELSE posted
  /\ postIdx' = postIdx + 1
  /\ UNCHANGED <<pureVars, dedupVars, scrapeVars, tickerVars, sourceURLs, srcIdx, scanned,
                 allNewCourses, pcScan>>

\* db.AddCourse stores the course and sets its ID; bot.PostCourse sends it,
\* or fails
AddAndPostCourse ==
  /\ pcScan = "process"
  /\ pc = "done"
  /\ postIdx <= Len(deduplicated)
  /\ deduplicated[postIdx].URL \notin db
  /\ db' = db \cup {deduplicated[postIdx].URL}
  /\ \E sent \in BOOLEAN :
       posted' = IF sent
                 THEN Append(posted, [deduplicated[postIdx] EXCEPT !.ID = Cardinality(db) + 1])
                 ELSE posted
  /\ postIdx' = postIdx + 1
  /\ UNCHANGED <<pureVars, dedupVars, scrapeVars, tickerVars, sourceURLs, srcIdx, scanned,
                 allNewCourses, pcScan>>

\* the loop over the deduplicated courses ends
ScanCompleted ==
  /\ pcScan = "process"
  /\ pc = "done"
  /\ postIdx > Len(deduplicated)
  /\ pcScan' = "completed"
  /\ UNCHANGED <<pureVars, dedupVars, scrapeVars, tickerVars, sourceURLs, srcIdx, scanned,
                 allNewCourses, db, postIdx, posted>>

NextScan ==
  \/ ScrapeFails
  \/ ScrapeSucceeds
  \/ CallDeduplicate
  \/ ReturnInput
  \/ EnterLoop
  \/ OuterSkip
  \/ OuterPick
  \/ InnerSkip
  \/ InnerDifferent
  \/ InnerMerge
  \/ Emit
  \/ Return
  \/ AddCourseFails
  \/ AddAndPostCourse
  \/ ScanCompleted

SpecScan == InitScan /\ [][NextScan]_vars

(***************************************************************************)
(* SpecMonitor: startCourseMonitoring.  The first scanForCourses call is   *)
(* made at once; each later call is made when the loop receives a tick.    *)
(* The ticker's channel holds one tick: a tick that finds it full is       *)
(* dropped.                                                                *)
(***************************************************************************)
\* the bot starts on a new database, with as many configured sources as there
\* are source pages
InitMonitor ==
  /\ PureIdle
  /\ DedupIdle
  /\ ScrapeIdle
  /\ sourceURLs \in [1..Cardinality(Sources) -> Sources]
  /\ srcIdx = 1
  /\ scanned = << >>
  /\ allNewCourses = << >>
  /\ db = {}
  /\ postIdx = 0
  /\ posted = << >>
  /\ cycle = 1
  /\ tick = FALSE
  /\ pcScan = "sources"

\* the ticker delivers a tick, whatever the monitoring goroutine is doing
Tick ==
  /\ pcScan # "idle"
  /\ ~tick
  /\ tick' = TRUE
  /\ UNCHANGED <<pureVars, dedupVars, scrapeVars, sourceURLs, srcIdx, scanned,
                 allNewCourses, db, postIdx, posted, cycle, pcScan>>

NextCycle_OnTick ==
  /\ tick
  /\ cycle < MaxCycles
  /\ tick' = FALSE
  /\ cycle' = cycle + 1
  /\ srcIdx' = 1
  /\ scanned' = << >>
  /\ allNewCourses' = << >>
  /\ postIdx' = 0
  /\ pcScan' = "sources"
  /\ courses' = << >>
  /\ processed' = {}
  /\ i' = 0
  /\ j' = 0
  /\ bestCourse' = NoValue
  /\ bestIdx' = 0
  /\ deduplicated' = << >>
  /\ origin' = << >>
  /\ pc' = "idle"
  /\ UNCHANGED <<pureVars, scrapeVars, similarityThreshold, sourceURLs, db, posted>>

\* for range ticker.C: the previous call has returned and a tick waits; the
\* next scanForCourses call starts with a new engine and an empty list
NextCycle ==
  /\ pcScan = "completed"
  /\ tick
  /\ cycle < MaxCycles
  /\ tick' = FALSE
  /\ cycle' = cycle + 1
  /\ srcIdx' = 1
  /\ scanned' = << >>
  /\ allNewCourses' = << >>
  /\ postIdx' = 0
  /\ pcScan' = "sources"
  /\ courses' = << >>
  /\ processed' = {}
  /\ i' = 0
  /\ j' = 0
  /\ bestCourse' = NoValue
  /\ bestIdx' = 0
  /\ deduplicated' = << >>
  /\ origin' = << >>
  /\ pc' = "idle"
  /\ UNCHANGED <<pureVars, scrapeVars, similarityThreshold, sourceURLs, db, posted>>

NextMonitor ==
  \/ NextScan
  \/ Tick
  \/ NextCycle

SpecMonitor == InitMonitor /\ [][NextMonitor]_vars

(***************************************************************************)
(* SpecPick: the link followCouponLink takes from a page and the link      *)
(* followClaimLink takes from a page with the same anchors.                *)
(***************************************************************************)
InitPick ==
  /\ fn = "none"
  /\ args \in {<<links>> : links \in UNION {[1..n -> Links] : n \in 0..(MaxLinks + 1)}}
  /\ ret = NoValue
  /\ DedupIdle
  /\ ScrapeIdle
  /\ ScanIdle

CallPicks ==
  /\ fn = "none"
  /\ fn' = "Picks"
  /\ ret' = [coupon |-> CouponPick(args[1]), claim |-> ClaimPick(args[1])]
  /\ UNCHANGED <<args, dedupVars, scrapeVars, scanVars>>

NextPick == CallPicks

SpecPick == InitPick /\ [][NextPick]_vars

(***************************************************************************)
(* inferCategoryFromTitle.  The keyword table is a Go map literal; the     *)
(* sequence below keeps the order in which its entries are written.  The   *)
(* range loop over a map visits the entries in an order the run-time       *)
(* chooses anew at every loop, so the entry that returns is any matching   *)
(* one.                                                                    *)
(***************************************************************************)
Entry(keyword, category) == [keyword |-> keyword, category |-> category]

categoryMap ==
  << Entry("python", "Programming"), Entry("javascript", "Programming"),
     Entry("java", "Programming"), Entry("golang", "Programming"),
     Entry("react", "Web Development"), Entry("angular", "Web Development"),
     Entry("vue", "Web Development"), Entry("html", "Web Development"),
     Entry("css", "Web Development"), Entry("data", "Data Science"),
     Entry("analytics", "Data Science"), Entry("machine", "Data Science"),
     Entry("ai", "Artificial Intelligence"), Entry("design", "Design"),
     Entry("photoshop", "Design"), Entry("marketing", "Marketing"),
     Entry("business", "Business"), Entry("excel", "Business"),
     Entry("photography", "Photography"), Entry("music", "Music"),
     Entry("fitness", "Health & Fitness"), Entry("yoga", "Health & Fitness"),
     Entry("language", "Language"), Entry("english", "Language"),
     Entry("spanish", "Language"), Entry("finance", "Finance"),
     Entry("investing", "Finance"), Entry("crypto", "Finance") >>

\* the lower-case words category titles are written with
CategoryWords == {"python", "javascript", "data", "training", "design", "cooking"}

\* strings.Contains(word, keyword) for the words above
KeywordsIn(word) ==
  CASE word = "python" -> {"python"}
    [] word = "javascript" -> {"javascript", "java"}
    [] word = "data" -> {"data"}
    [] word = "training" -> {"ai"}
    [] word = "design" -> {"design"}
    [] OTHER -> {}

\* strings.Contains(title, keyword): no keyword holds a space
TitleContains(title, keyword) == \E m \in DOMAIN title : keyword \in KeywordsIn(title[m])

\* the entries of the table whose keyword the title contains
Matching(title) == {k \in DOMAIN categoryMap : TitleContains(title, categoryMap[k].keyword)}

\* the categories a run of the range loop can return
inferCategoryFromTitle(title) ==
  IF Matching(title) = {} THEN {""} ELSE {categoryMap[k].category : k \in Matching(title)}

(***************************************************************************)
(* SpecCategory: inferCategoryFromTitle on every lower-case title of at    *)
(* most MaxWords + 1 words.                                                *)
(***************************************************************************)
InitCategory ==
  /\ fn = "none"
  /\ args \in {<<title>> : title \in TextsUpTo(CategoryWords, MaxWords + 1)}
  /\ ret = NoValue
  /\ DedupIdle
  /\ ScrapeIdle
  /\ ScanIdle

CallInferCategory ==
  /\ fn = "none"
  /\ fn' = "inferCategoryFromTitle"
  /\ ret' \in inferCategoryFromTitle(args[1])
  /\ UNCHANGED <<args, dedupVars, scrapeVars, scanVars>>

NextCategory == CallInferCategory

SpecCategory == InitCategory /\ [][NextCategory]_vars

(***************************************************************************)
(* The channel ID.  A channel ID is a sequence of characters; "1" stands   *)
(* for a decimal digit and "c" for a letter.  No ID of the lengths         *)
(* considered leaves the range of a 64-bit integer.                        *)
(***************************************************************************)
ChannelChars == {"@", "-", "1", "c"}

HasPrefix(s, c) == Len(s) > 0 /\ s[1] = c

Digits(s, from) == from <= Len(s) /\ \A n \in from..Len(s) : s[n] = "1"

\* strconv.ParseInt(s, 10, 64) returns no error
ParseIntOK(s) == IF HasPrefix(s, "-") THEN Digits(s, 2) ELSE Digits(s, 1)

\* security.ValidateChannelID; "" is a nil error
ValidateChannelID(channelID) ==
  IF Len(channelID) = 0 THEN "channel ID cannot be empty"
  ELSE IF ~HasPrefix(channelID, "@") /\ ~HasPrefix(channelID, "-") /\ ~ParseIntOK(channelID)
       THEN "invalid channel ID format"
       ELSE ""

\* Config.validate, the channel ID part
validate(channelID) ==
  IF channelID = << >> THEN "telegram channel ID is required"
  ELSE IF ValidateChannelID(channelID) # "" THEN "invalid channel ID"
       ELSE ""

\* the errors Bot.PostCourse can return for the channel ID it was built with
PostCourse(channelID) == IF ~ParseIntOK(channelID) THEN {"invalid channel ID"} ELSE {"", "send"}

(***************************************************************************)
(* SpecChannel: the configuration is validated; when it is accepted the    *)
(* bot is built with its channel ID and a stored course is posted.         *)
(***************************************************************************)
InitChannel ==
  /\ fn = "none"
  /\ args \in {<<channelID>> : channelID \in TextsUpTo(ChannelChars, MaxChars)}
  /\ ret = NoValue
  /\ DedupIdle
  /\ ScrapeIdle
  /\ ScanIdle

CallValidate ==
  /\ fn = "none"
  /\ fn' = "validate"
  /\ ret' = validate(args[1])
  /\ UNCHANGED <<args, dedupVars, scrapeVars, scanVars>>

CallPostCourse ==
  /\ fn = "validate"
  /\ ret = ""
  /\ fn' = "PostCourse"
  /\ ret' \in PostCourse(args[1])
  /\ UNCHANGED <<args, dedupVars, scrapeVars, scanVars>>

NextChannel ==
  \/ CallValidate
  \/ CallPostCourse

SpecChannel == InitChannel /\ [][NextChannel]_vars

(***************************************************************************)
(* extractPrice.  The text of a price marker is a sequence of characters:  *)
(* "$" is a currency symbol, "0" and "1" are digits, "." is a decimal      *)
(* separator, " " is white space, "F" stands for a word with "free" in it  *)
(* in some case and "w" for any other word.  The price returned is a       *)
(* literal of the code or a piece of the marker text.                      *)
(***************************************************************************)
PriceChars == {"$", "0", "1", ".", " ", "F", "w"}

Literal(s) == [literal |-> s, text |-> << >>]

PriceOf(t) == [literal |-> "", text |-> t]

IsDigit(c) == c \in {"0", "1"}

DigitAt(t, p) == p \in DOMAIN t /\ IsDigit(t[p])

RECURSIVE DigitsEnd(_, _)
\* \d+ from p on: the place after the last digit of the run
DigitsEnd(t, p) == IF DigitAt(t, p) THEN DigitsEnd(t, p + 1) ELSE p

\* (?:[.,]\d{2})? at e: the place after it
FractionEnd(t, e) ==
  IF e \in DOMAIN t /\ t[e] = "." /\ DigitAt(t, e + 1) /\ DigitAt(t, e + 2) THEN e + 3 ELSE e

\* \d+(?:[.,]\d{2})? from the digit at p on: the place after the match
NumberEnd(t, p) == FractionEnd(t, DigitsEnd(t, p))

RECURSIVE SpacesEnd(_, _)
\* \s* from p on: the place after the white space
SpacesEnd(t, p) == IF p \in DOMAIN t /\ t[p] = " " THEN SpacesEnd(t, p + 1) ELSE p

\* the place after a match of priceRegex that starts at p, 0 when none does
CurrencyEnd(t, p) ==
  IF t[p] = "$"
  THEN (IF DigitAt(t, SpacesEnd(t, p + 1)) THEN NumberEnd(t, SpacesEnd(t, p + 1)) ELSE 0)
  ELSE IF IsDigit(t[p])
       THEN (IF SpacesEnd(t, NumberEnd(t, p)) \in DOMAIN t /\ t[SpacesEnd(t, NumberEnd(t, p))] = "$"
             THEN SpacesEnd(t, NumberEnd(t, p)) + 1
             ELSE 0)
       ELSE 0

\* the places where a match of priceRegex starts
CurrencyStarts(t) == {p \in DOMAIN t : CurrencyEnd(t, p) # 0}

Least(S) == CHOOSE p \in S : \A q \in S : p <= q

\* priceRegex.FindString(priceText): the leftmost match, << >> when none
FindCurrency(t) ==
  IF CurrencyStarts(t) = {} THEN << >>
  ELSE SubSeq(t, Least(CurrencyStarts(t)), CurrencyEnd(t, Least(CurrencyStarts(t))) - 1)

DigitPlaces(t) == {p \in DOMAIN t : IsDigit(t[p])}

\* numericRegex.FindString(priceText): the leftmost match, << >> when none
FindNumber(t) ==
  IF DigitPlaces(t) = {} THEN << >>
  ELSE SubSeq(t, Least(DigitPlaces(t)), NumberEnd(t, Least(DigitPlaces(t))) - 1)

RECURSIVE TrimChars(_)
\* strings.TrimSpace of a marker text
TrimChars(t) ==
  IF t = << >> THEN t
  ELSE IF Head(t) = " " THEN TrimChars(Tail(t))
  ELSE IF t[Len(t)] = " " THEN TrimChars(SubSeq(t, 1, Len(t) - 1))
  ELSE t

\* strings.Contains(priceTextLower, "free"), "gratis" or "gratuito"
HasFreeWord(t) == \E p \in DOMAIN t : t[p] = "F"

\* the first non-empty marker text: of the container, else of the parent
MarkerText(containerText, parentText) ==
  IF containerText # << >> THEN containerText ELSE parentText

IsCouponHref(href) == HrefContains(href, "couponCode=") \/ HrefContains(href, "/coupon/")

PriceFromText_Unknown(t) ==
  IF HasFreeWord(t) \/ t = <<"0">> \/ t = <<"$", "0">> THEN Literal("Free")
  ELSE IF FindCurrency(t) # << >> THEN PriceOf(TrimChars(FindCurrency(t)))
  ELSE IF FindNumber(t) # << >> /\ FindNumber(t) # <<"0">> THEN PriceOf(<<"$">> \o FindNumber(t))
  ELSE Literal("Unknown")

\* extractPrice from the marker text on
PriceFromText(t) ==
  IF HasFreeWord(t) \/ t = <<"0">> \/ t = <<"$", "0">> THEN Literal("Free")
  ELSE IF FindCurrency(t) # << >> THEN PriceOf(TrimChars(FindCurrency(t)))
  ELSE IF FindNumber(t) # << >> /\ FindNumber(t) # <<"0">> THEN PriceOf(<<"$">> \o FindNumber(t))
  ELSE IF t # << >> THEN PriceOf(TrimChars(t))
  ELSE Literal("Free")

extractPrice(href, containerText, parentText) ==
  IF IsCouponHref(href) THEN Literal("Free (Coupon)")
  ELSE PriceFromText(MarkerText(containerText, parentText))

(***************************************************************************)
(* SpecPrice: extractPrice on anchors with and without a coupon href, with *)
(* every marker text of at most MaxPriceChars characters in the container  *)
(* and, when the container has none, a marker text in the parent.          *)
(***************************************************************************)
PriceHrefs == {CourseHref, CouponHref, TrackingHref}

PriceTexts == TextsUpTo(PriceChars, MaxPriceChars)

ParentPriceTexts == {<< >>, <<"$", "1">>, <<"w">>}

InitPrice ==
  /\ fn = "none"
  /\ args \in {<<href, t, << >> >> : href \in PriceHrefs, t \in PriceTexts}
                \cup {<<href, << >>, t>> : href \in PriceHrefs, t \in ParentPriceTexts}
  /\ ret = NoValue
  /\ DedupIdle
  /\ ScrapeIdle
  /\ ScanIdle

CallExtractPrice ==
  /\ fn = "none"
  /\ fn' = "extractPrice"
  /\ ret' = extractPrice(args[1], args[2], args[3])
  /\ UNCHANGED <<args, dedupVars, scrapeVars, scanVars>>

NextPrice == CallExtractPrice

SpecPrice == InitPrice /\ [][NextPrice]_vars

(***************************************************************************)
(* extractExpirationDate and parseCouponExpiration.  A coupon code is      *)
(* written as a word, a day, a month name and a year, each of them         *)
(* possibly missing; a day is written only before a month name, so the     *)
(* digits of the day and of the year never touch.  The resolved URL is     *)
(* given by the value of its own couponCode parameter and by its murl      *)
(* parameter: the way the nested URL is written in it and the coupon code  *)
(* of the nested URL.  NoParam says that the parameter is absent.          *)
(***************************************************************************)
NoParam == "-"

CouponCode(word, day, month, year) == [word |-> word, day |-> day, month |-> month, year |-> year]

NoCode == CouponCode("", "", "", "")

\* strconv.Atoi of the digit groups the codes are written with
Atoi(digits) ==
  CASE digits = "0" -> 0
    [] digits = "5" -> 5
    [] digits = "22" -> 22
    [] digits = "31" -> 31
    [] digits = "32" -> 32
    [] digits = "2024" -> 2024
    [] digits = "2025" -> 2025
    [] digits = "2026" -> 2026
    [] OTHER -> 0

\* the keys of monthMap that strings.ToUpper of a month name contains and
\* that the year can follow at once, with their months
MonthOf(month) ==
  CASE month = "JULY" -> 7
    [] month = "JUL" -> 7
    [] month = "Feb" -> 2
    [] OTHER -> 0

\* the days of a month of the years considered, none of them a leap year
DaysIn(month) == IF month = 2 THEN 28 ELSE 31

Date(year, month, day) == [kind |-> "date", year |-> year, month |-> month, day |-> day]

\* now + n days
DaysFromNow(n) == [kind |-> "relative", year |-> 0, month |-> 0, day |-> n]

ZeroTime == [kind |-> "zero", year |-> 0, month |-> 0, day |-> 0]

\* time.Date(year, month, day, 23, 59, 59, 0, time.UTC): a day past the end of
\* the month runs over into the next month
TimeDate(year, month, day) ==
  IF day <= DaysIn(month) THEN Date(year, month, day)
  ELSE Date(year, month + 1, day - DaysIn(month))

\* the regular expression (\d{1,2})?MONTH(\d{4}) matches the upper-cased code
MonthMatches(code) == MonthOf(code.month) # 0 /\ code.year # ""

DayOf(code) == IF code.day = "" THEN 1 ELSE Atoi(code.day)

\* the last part of parseCouponExpiration: the first 20xx of the code
YearOnly(code, nowYear) ==
  IF code.year # "" /\ Atoi(code.year) >= nowYear THEN TimeDate(Atoi(code.year), 12, 31)
  ELSE ZeroTime

parseCouponExpiration(code, nowYear) ==
  IF /\ MonthMatches(code)
     /\ Atoi(code.year) > 0
     /\ Atoi(code.year) >= nowYear
     /\ DayOf(code) > 0
     /\ DayOf(code) <= 31
  THEN TimeDate(Atoi(code.year), MonthOf(code.month), DayOf(code))
  ELSE YearOnly(code, nowYear)

Nested(written, code) == [written |-> written, code |-> code]

ResolvedURL(couponCode, murl) == [couponCode |-> couponCode, murl |-> murl]

\* the coupon code is not the empty string
Written(code) == code # NoCode

\* strings.Contains(courseURL, "couponCode="): in the URL's own parameter, or
\* in a nested URL that is written without escapes
ContainsCouponCode(courseURL) ==
  \/ courseURL.couponCode # NoParam
  \/ courseURL.murl.written = "plain" /\ Written(courseURL.murl.code)

\* the coupon code read from the murl parameter, NoCode when there is none
NestedCode(courseURL) ==
  IF courseURL.murl.written = "none" THEN NoCode ELSE courseURL.murl.code

\* strings.Contains(strings.ToLower(title), "limited"), "special" or "exclusive"
IsLimitedOffer(title) == \E m \in DOMAIN title : title[m] \in {"Limited", "EXCLUSIVE"}

DefaultExpiration(title) == IF IsLimitedOffer(title) THEN DaysFromNow(2) ELSE DaysFromNow(7)

extractExpirationDate(courseURL, title, nowYear) ==
  IF /\ ContainsCouponCode(courseURL)
     /\ Written(NestedCode(courseURL))
     /\ parseCouponExpiration(NestedCode(courseURL), nowYear) # ZeroTime
  THEN parseCouponExpiration(NestedCode(courseURL), nowYear)
  ELSE DefaultExpiration(title)

(***************************************************************************)
(* SpecExpiry: extractExpirationDate on resolved URLs with and without a   *)
(* nested URL, for every coupon code of the shapes above.                  *)
(***************************************************************************)
CodeDays == {"", "0", "5", "22", "31", "32"}

CodeMonths == {"JULY", "JUL", "Feb"}

CodeYears == {"", "2024", "2025", "2026"}

CouponCodes ==
  {CouponCode(w, d, m, y) : w \in {"", "SALE"}, d \in CodeDays, m \in CodeMonths, y \in CodeYears}
    \cup {CouponCode(w, "", "", y) : w \in {"", "SALE"}, y \in CodeYears}

ResolvedURLs ==
  {ResolvedURL(c, Nested(w, code)) :
     c \in {NoParam, "FREE"}, w \in {"escaped", "plain"}, code \in CouponCodes}
    \cup {ResolvedURL(c, Nested("none", NoCode)) : c \in {NoParam, "FREE"}}

ExpiryTitles == {<<"Python">>, <<"Limited", "Python">>}

InitExpiry ==
  /\ fn = "none"
  /\ args \in {<<u, t, ScanYear>> : u \in ResolvedURLs, t \in ExpiryTitles}
  /\ ret = NoValue
  /\ DedupIdle
  /\ ScrapeIdle
  /\ ScanIdle

CallExtractExpirationDate ==
  /\ fn = "none"
  /\ fn' = "extractExpirationDate"
  /\ ret' = extractExpirationDate(args[1], args[2], args[3])
  /\ UNCHANGED <<args, dedupVars, scrapeVars, scanVars>>

NextExpiry == CallExtractExpirationDate

SpecExpiry == InitExpiry /\ [][NextExpiry]_vars

(***************************************************************************)
(* Properties of DeduplicateCourses (Spec).                                *)
(***************************************************************************)
\* C1: whenever a later unprocessed listing j is similar to the current best,
\* the listing kept as current best is the pairwise winner
\* FindBestCourse(best, j), for every batch, those whose IDs are all equal
\* included.
C1_KeepsPairwiseWinner ==
  [][InnerMerge => bestCourse' = FindBestCourse(bestCourse, courses[j])]_vars

\* C2 as stated: two listings with identical titles and identical categories
\* are always reduced to exactly one listing.
C2_SameTitleAndCategoryMerged ==
  (/\ pc = "done"
   /\ Len(courses) = 2
   /\ courses[1].Title = courses[2].Title
   /\ courses[1].Category = courses[2].Category)
  => Len(deduplicated) = 1

\* C2 as amended: two listings with identical titles and identical categories
\* whose descriptions are identical or whose ratings earn the rating bonus
\* (math.Abs(Rating1 - Rating2) <= 0.5) are reduced to exactly one listing,
\* which is one of the two.
C2_SameTitleCategoryAndOneMoreSignalMerged ==
  (/\ pc = "done"
   /\ Len(courses) = 2
   /\ courses[1].Title = courses[2].Title
   /\ courses[1].Category = courses[2].Category
   /\ \/ courses[1].Description = courses[2].Description
      \/ Abs(courses[1].Rating - courses[2].Rating) <= 5)
  => /\ Len(deduplicated) = 1
     /\ deduplicated[1] \in {courses[1], courses[2]}

C2_Witness ==
  /\ pc = "done"
  /\ Len(courses) = 2
  /\ courses[1].Title = courses[2].Title
  /\ courses[1].Category = courses[2].Category
  /\ courses[1].Description # courses[2].Description
  /\ courses[1].Rating = courses[2].Rating
  /\ Len(deduplicated) = 1

\* C3: no two distinct listings of the output are duplicates of each other
\* (similarity >= threshold).
C3_NoSimilarPairInOutput ==
  pc = "done" =>
    \A a \in DOMAIN deduplicated : \A b \in DOMAIN deduplicated :
      a # b => ~IsSimilar(similarityThreshold, deduplicated[a], deduplicated[b])

\* C4: every output listing equals, field for field, the input listing it was
\* copied from; distinct output positions come from distinct input indices;
\* the output is never longer than the input.
C4_OutputChosenFromInput ==
  /\ Len(origin) = Len(deduplicated)
  /\ Len(deduplicated) <= Len(courses)
  /\ \A a \in DOMAIN deduplicated :
       /\ origin[a] \in DOMAIN courses
       /\ deduplicated[a] = courses[origin[a]]
  /\ \A a \in DOMAIN origin : \A b \in DOMAIN origin :
       a # b => origin[a] # origin[b]

C4_Witness ==
  /\ pc = "done"
  /\ Len(courses) = 3
  /\ Len(deduplicated) = 2
  /\ origin[1] = 3
  /\ courses[3].Rating # courses[1].Rating
  /\ deduplicated[1] = courses[3]

\* no two listings of the input are similar at the engine's threshold
NoSimilarPair(batch, threshold) ==
  \A a \in DOMAIN batch : \A b \in DOMAIN batch :
    a # b => ~IsSimilar(threshold, batch[a], batch[b])

\* C5: if no two listings of the input are similar at the threshold, the
\* output is the input, unmodified and in its order.
C5_DissimilarInputUnchanged ==
  (pc = "done" /\ NoSimilarPair(courses, similarityThreshold))
    => deduplicated = courses

C5_Witness ==
  /\ pc = "done"
  /\ Len(courses) = 3
  /\ courses[1] # courses[2]
  /\ courses[2] # courses[3]
  /\ NoSimilarPair(courses, similarityThreshold)
  /\ deduplicated = courses

(***************************************************************************)
(* Properties of the pure functions.                                       *)
(***************************************************************************)
\* the two courses are tied on quality score, rating, student count and PostedAt
TiedOnAll(a, b) ==
  /\ a.QualityScore = b.QualityScore
  /\ a.Rating = b.Rating
  /\ a.StudentCount = b.StudentCount
  /\ a.PostedAt = b.PostedAt

\* w comes before l in the order of the four criteria: the first criterion on
\* which they differ is higher for w
Outranks(w, l) ==
  \/ w.QualityScore > l.QualityScore
  \/ /\ w.QualityScore = l.QualityScore
     /\ w.Rating > l.Rating
  \/ /\ w.QualityScore = l.QualityScore
     /\ w.Rating = l.Rating
     /\ w.StudentCount > l.StudentCount
  \/ /\ w.QualityScore = l.QualityScore
     /\ w.Rating = l.Rating
     /\ w.StudentCount = l.StudentCount
     /\ w.PostedAt > l.PostedAt

\* C6: FindBestCourse returns the listing with the higher quality score, then
\* the higher rating, then the higher student count, then the more recent
\* one; unless the two are tied on all four, the choice does not depend on
\* the order of the arguments.
C6_FindBestCourseOrder ==
  (fn = "FindBestCourse" /\ ~TiedOnAll(args[1], args[2]))
    => /\ ret.fwd \in {args[1], args[2]}
       /\ \A l \in {args[1], args[2]} \ {ret.fwd} : Outranks(ret.fwd, l)
       /\ ret.rev = ret.fwd

C6_Witness ==
  /\ fn = "FindBestCourse"
  /\ args[1].QualityScore = args[2].QualityScore
  /\ args[1].Rating = args[2].Rating
  /\ args[1].StudentCount = args[2].StudentCount
  /\ args[1].PostedAt > args[2].PostedAt
  /\ ret.fwd = args[1]
  /\ ret.rev = args[1]

\* C7: CalculateSimilarity(a, a) = 1.0 for every listing a, so IsSimilar(a, a)
\* holds for every threshold.
C7_SimilarityReflexive ==
  /\ (fn = "CalculateSimilarity" /\ args[1] = args[2]) => ret.n = ret.d
  /\ (fn = "IsSimilar" /\ args[1] = args[2]) => \A t \in ThresholdArgs : ret[t]

C7_Witness ==
  /\ fn = "IsSimilar"
  /\ args[1] = args[2]
  /\ args[1].Description = << >>
  /\ args[1].StudentCount = 0
  /\ ret[100]

\* C8: textSim(x, x) = 1.0 for every non-empty x, and textSim(x, "") =
\* textSim("", x) = 0.0 for every non-empty x.
C8_TextSimilarityIdentityAndEmpty ==
  fn = "calculateTextSimilarity" =>
    /\ (args[1] = args[2] /\ args[1] # << >>) => ret.n = ret.d
    /\ (args[1] # << >> /\ args[2] = << >>) => ret.n = 0
    /\ (args[1] = << >> /\ args[2] # << >>) => ret.n = 0

C8_Witness ==
  /\ fn = "calculateTextSimilarity"
  /\ args[1] = <<"Complete", "2024">>
  /\ args[2] = << >>
  /\ ret.n = 0

\* C9: CalculateSimilarity(a, b) lies in [0, 1].
C9_SimilarityInUnitInterval ==
  fn = "CalculateSimilarity" => (ret.d > 0 /\ 0 <= ret.n /\ ret.n <= ret.d)

C9_Witness ==
  /\ fn = "CalculateSimilarity"
  /\ TotalSimilarity(args[1], args[2]).n > TotalSimilarity(args[1], args[2]).d
  /\ args[1] # args[2]
  /\ ret.n = ret.d

\* C10: calculateQualityScore lies in [0, 100] for every rating in [0, 5] and
\* every student count >= 0, also when the sum of the terms is above 100 or
\* below 0.
C10_QualityScoreInRange ==
  fn = "calculateQualityScore" => (0 <= ret /\ ret <= 1000)

C10_Witness ==
  /\ fn = "calculateQualityScore"
  /\ RawQualityScore(args[1], args[2], args[3], args[4], args[5]) > 1000
  /\ ret = 1000

(***************************************************************************)
(* Properties of link resolution (SpecResolve).                            *)
(***************************************************************************)
\* the link followCouponLink takes from the coupon page of this resolution
CouponLink == CouponPick(args[3].links)

\* C12: an anchor whose href is a tracking URL (a host containing
\* linksynergy.com or "click.", or a URL with murl=) resolves without error to
\* the href itself, for a direct anchor of the scanned page and for a link
\* taken from a coupon page.
C12_TrackingHrefKept ==
  fn = "ResolveAnchor" =>
    /\ (~HrefContains(args[1], "/coupon/") /\ IsTracking(args[1]))
          => (ret.err = "" /\ ret.url = args[1])
    /\ (HrefContains(args[1], "/coupon/") /\ args[3].err = ""
          /\ CouponLink # NoURL /\ IsTracking(CouponLink))
          => (ret.err = "" /\ ret.url = CouponLink)

\* C13: a resolution that succeeds with a non-tracking URL returns a URL whose
\* host contains udemy.com, for direct anchors and for links found on coupon
\* and claim pages.
C13_NonTrackingOnUdemyHost ==
  (fn = "ResolveAnchor" /\ ret.err = "" /\ ~IsTracking(ret.url))
    => "udemy.com" \in HostMarks(ret.url.host)

\* C14: an href starting with "/" resolves as the same href rooted at the
\* scheme and host of the source page does, for coupon hrefs and for direct
\* hrefs.
C14_RelativeHrefRooted ==
  (fn = "ResolveAnchor" /\ HasPrefixSlash(args[1])) =>
    /\ ret.url = ResolveAnchor(Rooted(args[1], args[2]), args[2], args[3], args[4]).url
    /\ (ret.err = "") = (ResolveAnchor(Rooted(args[1], args[2]), args[2], args[3], args[4]).err = "")

\* whether the resolution is that of a coupon anchor whose coupon page was
\* fetched
CouponPageFetched == HrefContains(args[1], "/coupon/") /\ args[3].err = ""

\* the Udemy links of a page that are under /user/
UserLinks(links) == {links[n] : n \in {m \in DOMAIN links :
                       HrefContains(links[m], "udemy.com") /\ HrefContains(links[m], "/user/")}}

\* whether all the Udemy links of the page, and at least one, are under /user/
OnlyUserLinks(links) ==
  /\ UserLinks(links) # {}
  /\ \A n \in DOMAIN links :
       HrefContains(links[n], "udemy.com") => HrefContains(links[n], "/user/")

FetchesOf(log) == {n \in DOMAIN log : log[n].op = "fetch"}

\* whether a page has no destination link: no link with udemy.com that is a
\* course link or is not a user profile
NoDestination(links) ==
  \A n \in DOMAIN links :
    ~(HrefContains(links[n], "udemy.com")
        /\ (HrefContains(links[n], "/course/") \/ ~HrefContains(links[n], "/user/")))

\* whether the page has a /claim/ link
HasClaimLink(links) == \E n \in DOMAIN links : HrefContains(links[n], "/claim/")

\* C16: one resolution makes at most two fetches, the coupon page first and
\* then at most one claim page; it returns an error and no URL when the
\* coupon fetch fails, when the claim fetch fails, and when neither page has
\* a destination link.
C16_TwoFetchesOrError ==
  fn = "ResolveAnchor" =>
    /\ Cardinality(FetchesOf(ret.log)) <= 2
    /\ ret.err # "" => ret.url = NoURL
    /\ (HrefContains(args[1], "/coupon/") /\ args[3].err # "")
         => (ret.err # "" /\ Cardinality(FetchesOf(ret.log)) = 1)
    /\ (CouponPageFetched /\ NoDestination(args[3].links) /\ ~HasClaimLink(args[3].links))
         => (ret.err # "" /\ Cardinality(FetchesOf(ret.log)) = 1)
    /\ (CouponPageFetched /\ NoDestination(args[3].links) /\ HasClaimLink(args[3].links)
           /\ (args[4].err # "" \/ NoDestination(args[4].links)))
         => (ret.err # "" /\ Cardinality(FetchesOf(ret.log)) = 2)

C16_Witness ==
  /\ fn = "ResolveAnchor"
  /\ args[1] = CouponHref
  /\ args[3] = Fetched(<<ClaimHref>>)
  /\ args[4] = FetchFailed("status")
  /\ Cardinality(FetchesOf(ret.log)) = 2
  /\ ret.err = "failed to follow claim link"
  /\ ret.url = NoURL

\* the decoded values the written query gives the key
ValuesOf(query, key) ==
  {QueryUnescape(query[n][2]) : n \in {m \in DOMAIN query : query[m][1] = key}}

\* whether result keeps of the original query exactly its non-empty
\* couponCode and referralCode
KeepsOnlyCodes(result, original) ==
  /\ \A n \in DOMAIN result : result[n][1] \in {"couponCode", "referralCode"}
  /\ \A key \in {"couponCode", "referralCode"} :
       /\ Cardinality({n \in DOMAIN result : result[n][1] = key}) <= 1
       /\ ValuesOf(result, key) = ValuesOf(original, key) \ {""}

\* the hrefs a resolution reads
HrefsRead == {args[1]} \cup Range(args[3].links) \cup Range(args[4].links)

\* C17: a resolution that succeeds with a non-tracking URL returns one of the
\* hrefs it read with the query reduced to the couponCode and referralCode
\* parameters, each with the value it had when it had a non-empty one.
C17_OnlyCouponAndReferralKept ==
  (fn = "ResolveAnchor" /\ ret.err = "" /\ ~IsTracking(ret.url)) =>
    \E o \in HrefsRead :
      /\ ~IsTracking(o)
      /\ ret.url.host = o.host
      /\ ret.url.path = o.path
      /\ KeepsOnlyCodes(ret.url.query, o.query)

C17_Witness ==
  /\ fn = "ResolveAnchor"
  /\ args[1] = JavaHref
  /\ ret.err = ""
  /\ ret.url.query = << <<"couponCode", "NEW+YEAR">>, <<"referralCode", "R1">> >>

(***************************************************************************)
(* Properties of the title check (SpecTitle).                              *)
(***************************************************************************)
\* C20: the title of every listing emitted is non-empty and between 10 and
\* 200 bytes long after trimming and sanitization; an anchor whose final
\* title is shorter than 10 bytes gets no listing.
C20_TitleLengthInRange ==
  (fn = "ExtractTitle" /\ ret.emit) =>
    /\ ret.title # << >>
    /\ 10 <= StrLen(ret.title)
    /\ StrLen(ret.title) <= 200

(***************************************************************************)
(* Properties of ScrapeCoursesFromURL (SpecScrape).                        *)
(***************************************************************************)
\* the anchors handled so far with the given outcome
AnchorsWith(kind) == {n \in DOMAIN outcome : outcome[n].kind = kind}

\* C11: the cap of a page is 1000: when the scrape of a page of N anchors has
\* returned and every anchor either gave a listing or met the cap, it has
\* produced min(N, 1000) listings, and only anchors after the 1000th met the
\* cap.
C11_CapIsThousand ==
  (pcScrape = "returned" /\ scrapeErr = ""
     /\ AnchorsWith("listed") \cup AnchorsWith("limit") = DOMAIN anchors)
  => /\ Len(scraped) = min(Len(anchors), 1000)
     /\ \A n \in AnchorsWith("limit") : n > 1000

\* C19: an anchor whose resolution fails gets no listing, the anchors after
\* it are still handled, and the scrape of the page returns no error.
C19_UnresolvedAnchorDropped ==
  /\ Len(scraped) = Cardinality(AnchorsWith("listed"))
  /\ \A n \in DOMAIN outcome : outcome[n].err # "" => outcome[n].kind = "unresolved"
  /\ AnchorsWith("unresolved") # {} => scrapeErr = ""
  /\ (pcScrape = "returned" /\ AnchorsWith("unresolved") # {})
       => DOMAIN outcome = DOMAIN anchors

C19_Witness ==
  /\ pcScrape = "returned"
  /\ scrapeErr = ""
  /\ Len(anchors) = 2
  /\ anchors[1].href = RelativeCouponHref
  /\ outcome[1] = Outcome("unresolved", "failed to follow claim link")
  /\ outcome[2].kind = "listed"
  /\ scraped = <<Listing(cleanUdemyURL(CourseHref).url, <<Run("visible", 12)>>)>>

\* C27: every fetch of a scrape (one client.Do call for the source page, a
\* coupon page or a claim page) comes right after a rate-limit delay of its
\* own, whether the fetch before it succeeded or failed.
C27_DelayBeforeEveryFetch ==
  \A n \in DOMAIN events :
    events[n].op = "fetch" => (n > 1 /\ events[n - 1].op = "sleep")

C27_Witness ==
  /\ pcScrape = "returned"
  /\ Len(outcome) = 2
  /\ outcome[1] = Outcome("unresolved", "status")
  /\ outcome[2] = Outcome("unresolved", "failed to follow claim link")
  /\ Len(events) = 8
  /\ events[1] = Sleep
  /\ events[2] = Fetch(sourceURL)
  /\ events[5] = Sleep
  /\ events[7] = Sleep
  /\ HrefContains(events[8].url, "/claim/")

(***************************************************************************)
(* Properties of scanForCourses (SpecScan).                                *)
(***************************************************************************)
RECURSIVE NewOfSucceeded(_)
\* the listings not yet stored of the sources from the n-th on whose scrape
\* succeeded, in the order of the sources
NewOfSucceeded(n) ==
  IF n > Len(scanned) THEN << >>
  ELSE (IF scanned[n].err = ""
        THEN NewCoursesFrom(scanned[n].courses, scanned[n].unchecked, db, 1)
        ELSE << >>)
         \o NewOfSucceeded(n + 1)

\* C18: a source whose scrape fails contributes no listing, the sources are
\* scraped in configuration order and every one of them is scraped whether or
\* not an earlier one failed, and DeduplicateCourses is called with the new
\* listings of the sources that succeeded.
C18_FailedSourceSkipped ==
  /\ Len(scanned) <= Len(sourceURLs)
  /\ \A n \in DOMAIN scanned : scanned[n].url = sourceURLs[n]
  /\ pcScan = "sources" => allNewCourses = NewOfSucceeded(1)
  /\ pcScan # "sources" => Len(scanned) = Len(sourceURLs)
  /\ (pcScan = "process" /\ pc = "start") => courses = NewOfSucceeded(1)

C18_Witness ==
  /\ pcScan = "process"
  /\ pc = "start"
  /\ Len(scanned) = 2
  /\ scanned[1].err = "status"
  /\ scanned[2].err = ""
  /\ courses = <<PythonListing, JavaListing>>

\* the listing was returned by a scrape of this cycle and CourseExists
\* answered for it without an error
Checked(course) ==
  \E n \in DOMAIN scanned :
    /\ scanned[n].err = ""
    /\ \E m \in DOMAIN scanned[n].courses :
         m \notin scanned[n].unchecked /\ scanned[n].courses[m] = course

\* the course is one of the listings the filter of this cycle kept
KeptByFilter(course) == \E k \in DOMAIN allNewCourses : allNewCourses[k].URL = course.URL

\* C23: every listing handed to DeduplicateCourses was checked without an
\* error against a table that does not hold its URL, and only such listings
\* are deduplicated, stored and posted in the cycle.
C23_OnlyNewListingsProcessed ==
  /\ pcScan = "sources" =>
       \A k \in DOMAIN allNewCourses :
         allNewCourses[k].URL \notin db /\ Checked(allNewCourses[k])
  /\ (pcScan = "process" /\ pc = "start") =>
       /\ courses = allNewCourses
       /\ \A k \in DOMAIN courses : courses[k].URL \notin db /\ Checked(courses[k])
  /\ (pcScan = "process" /\ pc = "done") =>
       \A k \in DOMAIN deduplicated : \E l \in DOMAIN allNewCourses : deduplicated[k] = allNewCourses[l]
  /\ cycle = 1 => \A k \in DOMAIN posted : KeptByFilter(posted[k])

C23_Witness ==
  /\ pcScan = "completed"
  /\ Len(scanned) = 1
  /\ scanned[1].courses = <<PythonListing, JavaListing>>
  /\ scanned[1].unchecked = {}
  /\ PythonListing.URL \in db
  /\ allNewCourses = <<JavaListing>>
  /\ Len(posted) = 1
  /\ posted[1].URL = JavaListing.URL

(***************************************************************************)
(* Properties of the title keyword term (SpecQuality).                     *)
(***************************************************************************)
\* the lower-cased title of the call
TitleLower == [k \in DOMAIN args[3] |-> ToLower(args[3][k])]

\* the score before the clamps, given the title keyword term
ScoreWithTitleTerm(term) ==
  (IF args[1] > 0 THEN args[1] * 8 ELSE 0)
  + 10 * (StudentTerm(args[2]) + term + DescriptionTerm(TextLen(args[4]))
          + YearBonus(args[3], args[5], args[5]))

\* C30 as stated: the title keyword term is +2 for every occurrence of a
\* positive keyword and -3 for every occurrence of a negative keyword, so the
\* score, when no clamp applies, is the sum of the terms with that one.
C30_TwoPerOccurrence ==
  (fn = "calculateQualityScore"
     /\ ScoreWithTitleTerm(TitleTerm_PerOccurrence(TitleLower)) \in 0..1000)
  => ret = ScoreWithTitleTerm(TitleTerm_PerOccurrence(TitleLower))

\* C30 amended: the title keyword term is +2 for every positive keyword that
\* occurs in the title and -3 for every negative keyword that occurs in it,
\* each keyword counted once however often it occurs.
C30_TwoPerKeyword ==
  fn = "calculateQualityScore" =>
    ret = Floor(Cap(ScoreWithTitleTerm(
            2 * Cardinality({k \in DOMAIN positiveWords :
                               Occurrences(TitleLower, positiveWords[k]) # {}})
            - 3 * Cardinality({k \in DOMAIN negativeWords :
                                 Occurrences(TitleLower, negativeWords[k]) # {}}))))

C30_Witness ==
  /\ fn = "calculateQualityScore"
  /\ args = <<40, 0, <<"Complete", "Complete">>, << >>, 2025>>
  /\ ret = 340

(***************************************************************************)
(* Properties of the link choice (SpecPick).                               *)
(***************************************************************************)
\* C28: for the same ordered list of links, followClaimLink and
\* followCouponLink take the same link.
C28_SamePickOnBothPages ==
  fn = "Picks" => ret.coupon = ret.claim

(***************************************************************************)
(* Properties of inferCategoryFromTitle (SpecCategory).                    *)
(***************************************************************************)
\* the category of the first entry, in written order, whose keyword the title
\* contains
FirstMatchCategory(title) ==
  IF Matching(title) = {}
  THEN ""
  ELSE categoryMap[CHOOSE k \in Matching(title) : \A l \in Matching(title) : k <= l].category

\* C29: the inferred category is the category of the first matching entry of
\* the keyword table, the same at every run, also for a title with keywords of
\* two categories.
C29_FirstMatchingEntryWins ==
  fn = "inferCategoryFromTitle" => ret = FirstMatchCategory(args[1])

(***************************************************************************)
(* Properties of the channel ID (SpecChannel).                             *)
(***************************************************************************)
\* C26: posting to a channel ID that configuration validation accepted never
\* fails with the invalid-channel-ID error.
C26_AcceptedChannelUsable ==
  fn = "PostCourse" => ret # "invalid channel ID"

(***************************************************************************)
(* Properties of startCourseMonitoring (SpecMonitor).                      *)
(***************************************************************************)
\* the courses a step posts
NewlyPosted == {posted'[n] : n \in DOMAIN posted' \ DOMAIN posted}

\* a step stores rows and never removes one, appends to the posted courses and
\* never takes one back, and posts only a course whose URL it has just stored
PostsOnlyWhatItStores ==
  /\ db \subseteq db'
  /\ Len(posted) <= Len(posted')
  /\ \A n \in DOMAIN posted : posted'[n] = posted[n]
  /\ \A course \in NewlyPosted : course.URL \notin db /\ course.URL \in db'

\* C24: over the scan cycles of a run a course URL is posted at most once: a
\* course is posted only in the step that stores its URL, and a URL that is
\* stored already is not posted again.
C24_PostedAtMostOnce == [][PostsOnlyWhatItStores]_vars

\* the second cycle has ended: the table already held the Python course the
\* first cycle posted, the source listed it again together with the Java course
\* under two titles, and only one Java listing was posted
C24_Witness ==
  /\ cycle = 2
  /\ pcScan = "completed"
  /\ Len(posted) = 2
  /\ posted[1].URL = PythonTrackedListing.URL
  /\ posted[2].URL = JavaListing.URL
  /\ Len(scanned) = 2
  /\ scanned[1].courses = <<PythonTrackedListing>>
  /\ scanned[2].courses = <<JavaListing, JavaRetitledListing>>
  /\ deduplicated = <<JavaListing, JavaRetitledListing>>

\* a step that starts a cycle follows the return of the cycle before it, and a
\* step that moves to the next source has recorded the outcome of the scrape of
\* the current one
StartsAfterReturn ==
  /\ cycle' # cycle =>
       /\ pcScan = "completed"
       /\ cycle' = cycle + 1
       /\ pcScan' = "sources"
       /\ srcIdx' = 1
       /\ scanned' = << >>
  /\ (cycle' = cycle /\ srcIdx' # srcIdx) =>
       /\ pcScan = "sources"
       /\ srcIdx' = srcIdx + 1
       /\ Len(scanned') = srcIdx
       /\ scanned'[srcIdx].url = sourceURLs[srcIdx]

\* C25: at most one scan cycle is in progress: a cycle starts only after the
\* one before it has returned, also when ticks arrive while a cycle runs, and
\* within a cycle the sources are scraped one after another.
C25_OneCycleAtATime == [][StartsAfterReturn]_vars

\* the second cycle is scraping its second source and the next tick is waiting
C25_Witness ==
  /\ cycle = 2
  /\ tick
  /\ pcScan = "sources"
  /\ srcIdx = 2
  /\ Len(scanned) = 1

(***************************************************************************)
(* Properties of extractPrice (SpecPrice).                                 *)
(***************************************************************************)
\* the marker text of the call
PriceText == MarkerText(args[2], args[3])

\* a currency-tagged amount: a symbol and a number, in either order, with
\* white space between them at most
IsAmount(t) ==
  \/ /\ Len(t) >= 2
     /\ t[1] = "$"
     /\ DigitAt(t, SpacesEnd(t, 2))
     /\ NumberEnd(t, SpacesEnd(t, 2)) = Len(t) + 1
  \/ /\ Len(t) >= 2
     /\ DigitAt(t, 1)
     /\ SpacesEnd(t, NumberEnd(t, 1)) = Len(t)
     /\ t[Len(t)] = "$"

NoDigit(t) == \A p \in DOMAIN t : ~IsDigit(t[p])

IsDatedCode(code, nowYear) ==
  /\ code.day # ""
  /\ code.month # ""
  /\ code.year # ""
  /\ Atoi(code.year) >= nowYear
  /\ Atoi(code.day) \in 1..DaysIn(MonthOf(code.month))

\* the code holds a year not before the current one and no month name
IsYearCode(code, nowYear) ==
  code.month = "" /\ code.year # "" /\ Atoi(code.year) >= nowYear

\* C22: when the resolved URL embeds a nested URL, escaped or not, whose coupon
\* code is <day><MONTHNAME><year> with a year not before the current one, the
\* expiration is that date; when the code holds only such a year, it is
\* December 31 of that year.
C22_ExpirationFromNestedCode ==
  (fn = "extractExpirationDate" /\ args[1].murl.written # "none") =>
    /\ IsDatedCode(args[1].murl.code, args[3]) =>
         ret = Date(Atoi(args[1].murl.code.year), MonthOf(args[1].murl.code.month),
                    Atoi(args[1].murl.code.day))
    /\ IsYearCode(args[1].murl.code, args[3]) =>
         ret = Date(Atoi(args[1].murl.code.year), 12, 31)

====
